---- MODULE Spec2Model ----
(***************************************************************************)
(* STN-bot: people, forms, per-person responses, synchronisation with the  *)
(* external form API and reminder dispatch.  Three Data Store              *)
(* implementations live in the repository and are modelled side by side:   *)
(*   StreamlitDatabase (STN-botv2/database/managers.py), the store the     *)
(*       ReminderService of v2 is wired to  (names Ss..., SpecSession and  *)
(*       SpecReminders);                                                   *)
(*   SQLiteDatabase (STN-botv2/database/sqlite_manager.py)  (names Sq...,  *)
(*       SpecSqlite);                                                      *)
(*   Database + ReminderService of STN-botv3  (names V3..., SpecV3).       *)
(***************************************************************************)
EXTENDS Integers, Sequences, FiniteSets, TLC

(* ------------------------------ bounds -------------------------------- *)
MaxPeople == 2      \* person ids (uuid4) ever issued
MaxForms == 1       \* form ids (uuid4) ever issued
MaxTime == 1        \* last value of the clock
MaxNamesakes == 2   \* forms in a store where two forms bear one name
MaxSends == 4       \* sends of the MessengerService in a behaviour of bulk sends
MaxSingleSends == 1002  \* single sends in a behaviour that fills the history
MaxReminders == 1   \* cap on reminder_count
MaxBuilds == 3      \* constructor calls of the service factory

\* MessengerService: rate_limit_delay (seconds), the history's cap and what a
\* truncation keeps
RateLimitDelay == 1
HistoryCap == 1000
HistoryKeep == 900

(* ---------------------------- value spaces --------------------------- *)
NoTime == -1        \* Optional[datetime] = None
BadTime == -2       \* a timestamp string datetime.fromisoformat rejects
SubmittedAt == 7    \* a parseable submission timestamp (not a clock value)

PersonIds == 1..MaxPeople
FormIds == 1..MaxForms
Times == 0..MaxTime
Cooldowns == 0..MaxTime

\* text is a sequence of characters; "A" is upper case, " " is white space
NoText == << >>
GoogleIds == { "g1", "g2" }

\* what callers hand to add_person: the email and the psid typed in
PersonInputs ==
    { [email |-> <<"a">>, psid |-> "h1"],
      [email |-> <<"A", " ">>, psid |-> ""],
      [email |-> NoText, psid |-> "h2"] }

\* Person(name=..., email=..., psid=...) as the add form, the repository and the
\* import build it: with or without a name, an email, a psid
GivenPeople ==
    { [name |-> <<"n">>, email |-> <<"a">>, psid |-> ""],
      [name |-> <<"n">>, email |-> NoText, psid |-> ""],
      [name |-> <<"n">>, email |-> <<" ">>, psid |-> ""],
      [name |-> NoText, email |-> NoText, psid |-> "h1"] }

\* what callers hand to add_form
FormInputs ==
    { [name |-> "n1", google_form_id |-> "g1", is_active |-> TRUE],
      [name |-> "n2", google_form_id |-> "", is_active |-> TRUE] }

(* ------------------------------ helpers ------------------------------ *)
RECURSIVE SelectIdx(_, _, _)
\* indices i of seq, ascending, from index k on, for which Test(seq[i])
SelectIdx(seq, Test(_), k) ==
    IF k > Len(seq) THEN << >>
    ELSE IF Test(seq[k]) THEN <<k>> \o SelectIdx(seq, Test, k + 1)
    ELSE SelectIdx(seq, Test, k + 1)

\* first index of seq whose element passes Test, 0 when none
FirstIdx(seq, Test(_)) ==
    IF \E i \in 1..Len(seq) : Test(seq[i])
    THEN CHOOSE i \in 1..Len(seq) : Test(seq[i]) /\ \A j \in 1..(i - 1) : ~Test(seq[j])
    ELSE 0

Range(seq) == { seq[i] : i \in 1..Len(seq) }

\* Body applied to the value of v, which is computed once
With(v, Body(_)) == CHOOSE r \in { Body(x) : x \in { v } } : TRUE

\* str.lower()
LowerChar(c) == IF c = "A" THEN "a" ELSE c
Lower(s) == [i \in 1..Len(s) |-> LowerChar(s[i])]

RECURSIVE LStrip(_)
LStrip(s) == IF s # << >> /\ Head(s) = " " THEN LStrip(Tail(s)) ELSE s
RECURSIVE RStrip(_)
RStrip(s) == IF s # << >> /\ s[Len(s)] = " " THEN RStrip(SubSeq(s, 1, Len(s) - 1)) ELSE s
\* str.strip()
Strip(s) == RStrip(LStrip(s))

\* Person.normalize_email / the email.lower().strip() of the sync loops
NormalizeEmail(email) == Strip(Lower(email))

\* Person.is_valid: bool(name.strip() and (email.strip() or psid.strip()))
PersonIsValid(name, email, psid) ==
    Strip(name) # NoText /\ (Strip(email) # NoText \/ psid # "")

(* ------------------------------- state ------------------------------- *)
VARIABLES
    impl,          \* which implementation this behaviour runs
    now,           \* datetime.now()
    issuedPeople,  \* person ids issued so far (uuid4 never repeats)
    issuedForms,   \* form ids issued so far
    ssPeople,      \* st.session_state.people    (list of dicts)
    ssForms,       \* st.session_state.forms     (list of dicts)
    ssResponses,   \* st.session_state.responses (list of dicts; a row's uuid is its position)
    dbPeople,      \* table people of the SQLite file, in rowid order
    dbForms,       \* table forms
    dbResponses,   \* table responses
    last,          \* what the last operation was given and what it returned
    syncs,         \* the sync passes in flight on the SQLite file, one per session
    messenger,     \* the MessengerService: its rate limiter, its history, its last results
    factory        \* ServiceFactory: _instances, _initialization_errors, constructor calls

vars == << impl, now, issuedPeople, issuedForms, ssPeople, ssForms, ssResponses,
          dbPeople, dbForms, dbResponses, last, syncs, messenger, factory >>
ssVars == << ssPeople, ssForms, ssResponses >>
dbVars == << dbPeople, dbForms, dbResponses >>

NewPerson(id, email, psid) == [id |-> id, email |-> email, psid |-> psid]
NewForm(id, name, gid, active) ==
    [id |-> id, name |-> name, google_form_id |-> gid, is_active |-> active]
\* Response(form_id, person_id, ...) with the dataclass defaults
NewResponse(f, p, responded, rdate, lrem, cnt) ==
    [form_id |-> f, person_id |-> p, has_responded |-> responded,
     response_date |-> rdate, last_reminder |-> lrem, reminder_count |-> cnt]

\* the report of an operation; fields an operation does not produce keep these values
NoReport ==
    [op |-> "init", ok |-> FALSE, status |-> "", form |-> 0, person |-> 0,
     syncFirst |-> FALSE, syncStatus |-> "", fetchFailed |-> FALSE,
     msgs |-> << >>, recorded |-> {},
     subs |-> << >>, created |-> 0, updated |-> 0, errors |-> 0,
     gid |-> "", name |-> NoText, email |-> NoText, psid |-> "", total |-> 0,
     entries |-> 0, cooldown |-> 0, orphaned |-> 0,
     service |-> "", required |-> FALSE, instance |-> 0, raised |-> FALSE,
     constructed |-> FALSE]

Report(op, fields) == [k \in DOMAIN NoReport |-> IF k = "op" THEN op
                                                 ELSE IF k \in DOMAIN fields THEN fields[k]
                                                 ELSE NoReport[k]]

(* ------------------ Response (database/models.py) -------------------- *)
NeedsReminder(r) == ~r.has_responded

CanSendReminder(r, cooldown, t) ==
    IF ~NeedsReminder(r) THEN FALSE
    ELSE IF r.last_reminder = NoTime THEN TRUE
    ELSE (t - r.last_reminder) > cooldown

RespMarkAsResponded(r, rdate, t) ==
    [r EXCEPT !.has_responded = TRUE,
              !.response_date = IF rdate = NoTime THEN t ELSE rdate]

RespRecordReminderSent(r, t) ==
    [r EXCEPT !.last_reminder = t, !.reminder_count = r.reminder_count + 1]

(* ------------- StreamlitDatabase (database/managers.py) -------------- *)
SsGetPersonById(P, pid) == FirstIdx(P, LAMBDA p : p.id = pid)

SsGetPersonByEmail(P, email) ==
    FirstIdx(P, LAMBDA p : NormalizeEmail(p.email) = NormalizeEmail(email))

SsGetPersonByPsid(P, psid) == FirstIdx(P, LAMBDA p : p.psid = psid)

\* [ok, people]
SsAddPersonTo(P, person) ==
    IF person.email # NoText /\ SsGetPersonByEmail(P, person.email) # 0
    THEN [ok |-> FALSE, people |-> P]
    ELSE IF person.psid # "" /\ SsGetPersonByPsid(P, person.psid) # 0
    THEN [ok |-> FALSE, people |-> P]
    ELSE [ok |-> TRUE, people |-> Append(P, person)]

\* update_person: the dict with the person's id is replaced, nothing is compared
\* with the other people
SsUpdatePersonIn(P, person) ==
    [ok |-> SsGetPersonById(P, person.id) # 0,
     people |-> [i \in 1..Len(P) |-> IF i = SsGetPersonById(P, person.id)
                                      THEN person ELSE P[i]]]

\* delete_person: the person's responses go first, then the person; True when a
\* person was removed
SsDeletePersonFrom(P, R, pid) ==
    [ok |-> \E i \in 1..Len(P) : P[i].id = pid,
     people |-> SelectSeq(P, LAMBDA p : p.id # pid),
     responses |-> SelectSeq(R, LAMBDA r : r.person_id # pid)]

SsGetFormById(F, fid) == FirstIdx(F, LAMBDA f : f.id = fid)
SsGetFormByGoogleId(F, gid) == FirstIdx(F, LAMBDA f : f.google_form_id = gid)
SsGetActiveForms(F) == SelectIdx(F, LAMBDA f : f.is_active, 1)

SsGetResponseByFormAndPerson(R, f, p) ==
    FirstIdx(R, LAMBDA r : r.form_id = f /\ r.person_id = p)

\* [ok, responses]
SsAddOrUpdateResponseTo(R, response) ==
    LET i == SsGetResponseByFormAndPerson(R, response.form_id, response.person_id)
    IN  IF i # 0 THEN [ok |-> TRUE, responses |-> [R EXCEPT ![i] = response]]
        ELSE [ok |-> TRUE, responses |-> Append(R, response)]

\* [ok, responses]
SsMarkAsRespondedIn(R, f, p, rdate, t) ==
    LET i == SsGetResponseByFormAndPerson(R, f, p)
    IN  IF i # 0
        THEN [ok |-> TRUE, responses |-> [R EXCEPT ![i] = RespMarkAsResponded(R[i], rdate, t)]]
        ELSE SsAddOrUpdateResponseTo(R,
                 NewResponse(f, p, TRUE, IF rdate = NoTime THEN t ELSE rdate, NoTime, 0))

\* [ok, responses]
SsRecordReminderSentIn(R, f, p, t) ==
    LET i == SsGetResponseByFormAndPerson(R, f, p)
    IN  IF i # 0
        THEN [ok |-> TRUE, responses |-> [R EXCEPT ![i] = RespRecordReminderSent(R[i], t)]]
        ELSE SsAddOrUpdateResponseTo(R, NewResponse(f, p, FALSE, NoTime, t, 1))

\* the (person, response) pairs as << index in P, index in R >>, in row order
SsJoin(P, R, idxs) ==
    LET keep == SelectIdx(idxs, LAMBDA i : SsGetPersonById(P, R[i].person_id) # 0, 1)
    IN  [k \in 1..Len(keep) |->
            << SsGetPersonById(P, R[idxs[keep[k]]].person_id), idxs[keep[k]] >>]

SsGetNonRespondersForForm(P, R, f) ==
    SsJoin(P, R, SelectIdx(R, LAMBDA r : r.form_id = f /\ NeedsReminder(r), 1))

SsGetPeopleNeedingReminders(P, R, f, cooldown, t) ==
    SsJoin(P, R, SelectIdx(R, LAMBDA r : r.form_id = f /\ CanSendReminder(r, cooldown, t), 1))

(* -------- GoogleFormsService (services/google_forms_service.py) ------- *)
\* what the App Script answers for one form: the request fails, or it returns
\* 'people' (detailed records) and 'emails'
Submission(email, ts) == [email |-> email, timestamp |-> ts]

\* get_form_responses: the unified list; [] when the request fails
GetFormResponses(answer) ==
    IF answer.failed THEN << >>
    ELSE LET det == SelectIdx(answer.people, LAMBDA s : s.email # NoText, 1)
             detailed == [k \in 1..Len(det) |->
                             Submission(NormalizeEmail(answer.people[det[k]].email),
                                        answer.people[det[k]].timestamp)]
             detailedEmails == { detailed[k].email : k \in 1..Len(detailed) }
             extra == SelectIdx(answer.emails,
                                LAMBDA e : NormalizeEmail(e) \notin detailedEmails, 1)
         IN  detailed \o [k \in 1..Len(extra) |->
                             Submission(NormalizeEmail(answer.emails[extra[k]]), NoTime)]

(* ---------- StreamlitDatabase.sync_google_forms_responses ------------- *)
\* the running state of a sync pass
SyncState(P, R, issued) ==
    [people |-> P, responses |-> R, issued |-> issued, full |-> FALSE,
     updated |-> 0, created |-> 0, errors |-> 0]

\* datetime.fromisoformat(timestamp), datetime.now() when it raises, None when absent
SsParseTimestamp(ts, t) ==
    IF ts = NoTime THEN NoTime ELSE IF ts = BadTime THEN t ELSE ts

\* one submission of the form with internal id fid
SsSyncOne(st, fid, sub, t) ==
    LET email == NormalizeEmail(sub.email)
        found == SsGetPersonByEmail(st.people, email)
        mark(s, pid) ==
            LET m == SsMarkAsRespondedIn(s.responses, fid, pid, SsParseTimestamp(sub.timestamp, t), t)
            IN  IF m.ok THEN [s EXCEPT !.responses = m.responses, !.updated = @ + 1]
                ELSE [s EXCEPT !.errors = @ + 1]
    IN  IF email = NoText THEN st
        ELSE IF found # 0 THEN mark(st, st.people[found].id)
        ELSE IF st.issued >= MaxPeople THEN [st EXCEPT !.full = TRUE]
        ELSE LET person == NewPerson(st.issued + 1, email, "")
                 a == SsAddPersonTo(st.people, person)
             IN  IF a.ok
                 THEN mark([st EXCEPT !.people = a.people, !.issued = @ + 1,
                                      !.created = @ + 1], person.id)
                 ELSE [st EXCEPT !.errors = @ + 1]

RECURSIVE SsSyncSubs(_, _, _, _, _)
SsSyncSubs(st, fid, subs, k, t) ==
    IF k > Len(subs) THEN st
    ELSE SsSyncSubs(SsSyncOne(st, fid, subs[k], t), fid, subs, k + 1, t)

RECURSIVE SsSyncForms(_, _, _, _, _)
\* google_responses is the list of << google_form_id, responses >> in dict order
SsSyncForms(st, F, google_responses, k, t) ==
    IF k > Len(google_responses) THEN st
    ELSE LET f == SsGetFormByGoogleId(F, google_responses[k][1])
         IN  IF f = 0 THEN SsSyncForms(st, F, google_responses, k + 1, t)
             ELSE SsSyncForms(SsSyncSubs(st, F[f].id, google_responses[k][2], 1, t),
                              F, google_responses, k + 1, t)

SsSyncGoogleFormsResponses(P, F, R, issued, google_responses, t) ==
    SsSyncForms(SyncState(P, R, issued), F, google_responses, 1, t)

(* ------------ MessengerService (services/messenger_service.py) -------- *)
\* how one call of the Send API ends
Outcomes == { "sent", "http_error", "timeout", "network_error" }

\* send_message: result["success"] is True on HTTP 200 only
SendMessage(outcome) == [success |-> outcome = "sent"]

\* MessengerService.__init__.  Time is counted in seconds.  elapsed is
\* time.time() - last_message_time, as far as _apply_rate_limit tells values
\* apart: every value from rate_limit_delay on is kept as rate_limit_delay
\* (last_message_time starts at 0.0, the epoch).  The service is one object for
\* the process (st.cache_resource), and its history lives in st.session_state,
\* which every browser session has of its own: __init__ creates the key
\* messenger_history in the session that constructs the service (session 1).
\* An entry is its rank among the entries ever written to that history
\* (written).  flip changes at every send_message.  session, input, results: the
\* last call, its times counted from its start
BrowserSessions == { 1, 2 }

NewMessenger ==
    [elapsed |-> RateLimitDelay,
     history |-> [u \in BrowserSessions |-> [present |-> u = 1, entries |-> << >>]],
     written |-> [u \in BrowserSessions |-> 0], flip |-> FALSE,
     session |-> 1, input |-> << >>, results |-> << >>]

Min(a, b) == IF a <= b THEN a ELSE b

\* _add_to_history: at 1000 entries the last 900 are kept, then the entry is
\* appended; without the key in st.session_state the AttributeError is caught
\* and logged, and nothing is kept
AddToHistory(H, entry) ==
    IF ~H.present THEN H
    ELSE [H EXCEPT !.entries =
            Append(IF Len(@) >= HistoryCap THEN SubSeq(@, Len(@) - HistoryKeep + 1, Len(@))
                   ELSE @,
                   entry)]

\* send_message called in browser session u at time at, the POST taking d seconds and ending as
\* outcome: _apply_rate_limit sleeps rate_limit_delay - elapsed when elapsed is
\* smaller and sets last_message_time, then the POST runs, then the result goes
\* to the history (in every branch)
SendMessageAt(M, u, at, psid, d, outcome) ==
    LET sleep == IF M.elapsed < RateLimitDelay THEN RateLimitDelay - M.elapsed ELSE 0
        result == [psid |-> psid, status |-> outcome, success |-> SendMessage(outcome).success,
                   start |-> at + sleep, end |-> at + sleep + d]
    IN  [m |-> [M EXCEPT !.elapsed = Min(d, RateLimitDelay),
                         !.history[u] = AddToHistory(@, M.written[u] + 1),
                         !.written[u] = IF M.history[u].present THEN @ + 1 ELSE @,
                         !.flip = ~@, !.session = u],
         result |-> result]

RECURSIVE SendBulkLoop(_, _, _, _, _, _)
\* the loop of send_bulk_messages: results.append(self.send_message(...)) for
\* each message in turn; env[k]: how long the k-th POST takes and how it ends
SendBulkLoop(M, u, results, psids, env, k) ==
    IF k > Len(psids) THEN [M EXCEPT !.input = psids, !.results = results]
    ELSE With(SendMessageAt(M, u, IF k = 1 THEN 0 ELSE results[k - 1].end, psids[k],
                            env[k].d, env[k].outcome),
              LAMBDA one : SendBulkLoop(one.m, u, Append(results, one.result), psids, env,
                                        k + 1))

\* send_bulk_messages
SendBulkMessages(M, u, psids, env) == SendBulkLoop(M, u, << >>, psids, env, 1)

(* ------------ ReminderService (services/reminder_service.py) ---------- *)
Store(P, F, R, issued) == [people |-> P, forms |-> F, responses |-> R, issued |-> issued]

\* the dict google_form_id -> responses that get_multiple_forms_responses builds
\* for the forms at indices idxs: one entry per distinct id, in first-insertion order
GoogleResponses(F, idxs, answers) ==
    LET firsts == SelectIdx(idxs,
                     LAMBDA i : \A k \in 1..Len(idxs) :
                         (F[idxs[k]].google_form_id = F[i].google_form_id) => idxs[k] >= i, 1)
    IN  [k \in 1..Len(firsts) |->
            << F[idxs[firsts[k]]].google_form_id,
               GetFormResponses(answers[F[idxs[firsts[k]]].google_form_id]) >>]

\* runs the database sync on S; [status, store, full, created, updated, errors]
RunSync(S, google_responses, t) ==
    LET st == SsSyncGoogleFormsResponses(S.people, S.forms, S.responses, S.issued,
                                         google_responses, t)
    IN  [status |-> "success", full |-> st.full,
         store |-> Store(st.people, S.forms, st.responses, st.issued),
         created |-> st.created, updated |-> st.updated, errors |-> st.errors]

SyncOutcome(status, S) ==
    [status |-> status, full |-> FALSE, store |-> S, created |-> 0, updated |-> 0, errors |-> 0]

\* sync_all_forms; raises: an exception escapes the body before the database sync
SyncAllForms(S, answers, raises, t) ==
    LET active == SsGetActiveForms(S.forms)
        configs == SelectIdx(active, LAMBDA i : S.forms[i].google_form_id # "", 1)
        cfgIdx == [k \in 1..Len(configs) |-> active[configs[k]]]
    IN  IF active = << >> THEN SyncOutcome("warning", S)
        ELSE IF configs = << >> THEN SyncOutcome("warning", S)
        ELSE IF raises THEN SyncOutcome("error", S)
        ELSE RunSync(S, GoogleResponses(S.forms, cfgIdx, answers), t)

\* sync_specific_form
SyncSpecificForm(S, fid, answers, raises, t) ==
    LET f == SsGetFormById(S.forms, fid)
    IN  IF f = 0 THEN SyncOutcome("error", S)
        ELSE IF S.forms[f].google_form_id = "" THEN SyncOutcome("error", S)
        ELSE IF raises THEN SyncOutcome("error", S)
        ELSE RunSync(S, GoogleResponses(S.forms, <<f>>, answers), t)

\* messages_data of _send_reminders_for_form_list: the entries of the list whose
\* form exists and whose person has a psid
MessagesData(P, F, R, list) ==
    LET keep == SelectIdx(list,
                    LAMBDA e : SsGetFormById(F, R[e[2]].form_id) # 0 /\ P[e[1]].psid # "", 1)
    IN  [k \in 1..Len(keep) |->
            [psid |-> P[list[keep[k]][1]].psid,
             person_id |-> P[list[keep[k]][1]].id,
             form_id |-> R[list[keep[k]][2]].form_id]]

\* a guard that lets every result through
ResultAlwaysSuccess(result) == TRUE

\* the test that guards record_reminder_sent in the loop over the send results
ResultIsSuccess(result) == result.success

RECURSIVE RecordSuccesses(_, _, _, _, _)
\* for i, result in enumerate(results): if result["success"]: record_reminder_sent(...)
RecordSuccesses(acc, messages_data, results, k, t) ==
    IF k > Len(results) THEN acc
    ELSE IF ResultIsSuccess(results[k])
    THEN RecordSuccesses(
             [responses |-> SsRecordReminderSentIn(acc.responses, messages_data[k].form_id,
                                                   messages_data[k].person_id, t).responses,
              recorded |-> acc.recorded \cup
                           { << messages_data[k].form_id, messages_data[k].person_id >> }],
             messages_data, results, k + 1, t)
    ELSE RecordSuccesses(acc, messages_data, results, k + 1, t)

\* _send_reminders_for_form_list; outcome maps << form, person >> to how its send ends
SendRemindersForFormList(P, F, R, list, outcome, t) ==
    LET messages_data == MessagesData(P, F, R, list)
        results == [k \in 1..Len(messages_data) |->
                       SendMessage(outcome[<< messages_data[k].form_id,
                                              messages_data[k].person_id >>])]
        done == RecordSuccesses([responses |-> R, recorded |-> {}],
                                messages_data, results, 1, t)
    IN  [responses |-> done.responses, recorded |-> done.recorded,
         msgs |-> [k \in 1..Len(messages_data) |->
                      [form |-> messages_data[k].form_id,
                       person |-> messages_data[k].person_id,
                       success |-> results[k].success]],
         sent |-> Cardinality({ k \in 1..Len(results) : results[k].success }),
         failed |-> Cardinality({ k \in 1..Len(results) : ~results[k].success })]

\* the filter "if response.can_send_reminder(cooldown_hours)" over a list of pairs
EligibleForReminder(R, list, cooldown, t) ==
    LET keep == SelectIdx(list, LAMBDA e : CanSendReminder(R[e[2]], cooldown, t), 1)
    IN  [k \in 1..Len(keep) |-> list[keep[k]]]

SendReport(status, sy, R, sendResult) ==
    [status |-> status, syncStatus |-> sy.status, full |-> sy.full,
     store |-> [sy.store EXCEPT !.responses = R],
     msgs |-> sendResult.msgs, recorded |-> sendResult.recorded,
     created |-> sy.created, updated |-> sy.updated, errors |-> sy.errors]

NothingSent == [msgs |-> << >>, recorded |-> {}]

\* send_reminders_for_form
SendRemindersForForm(S, fid, syncFirst, cooldown, answers, raises, outcome, t) ==
    LET noSync == SyncOutcome("", S)
    IN  IF SsGetFormById(S.forms, fid) = 0
        THEN SendReport("error", noSync, S.responses, NothingSent)
        ELSE
        With(IF syncFirst THEN SyncSpecificForm(S, fid, answers, raises, t) ELSE noSync,
             LAMBDA sy :
        With(SsGetNonRespondersForForm(sy.store.people, sy.store.responses, fid),
             LAMBDA non :
        With(EligibleForReminder(sy.store.responses, non, cooldown, t),
             LAMBDA eligible :
            IF non = << >> THEN SendReport("success", sy, sy.store.responses, NothingSent)
            ELSE IF eligible = << >>
            THEN SendReport("success", sy, sy.store.responses, NothingSent)
            ELSE With(SendRemindersForFormList(sy.store.people, sy.store.forms,
                                               sy.store.responses, eligible, outcome, t),
                      LAMBDA sent : SendReport("success", sy, sent.responses, sent)))))

\* get_all_non_responders: the dict form.name -> non-responders over the active
\* forms, as << form index >> per distinct name (the last form of a name wins)
AllNonResponders(F) ==
    LET active == SsGetActiveForms(F)
        firsts == SelectIdx(active,
                      LAMBDA i : \A j \in 1..Len(F) :
                          (F[j].is_active /\ F[j].name = F[i].name) => j >= i, 1)
        lastOf(name) == CHOOSE j \in 1..Len(F) :
                            /\ F[j].is_active /\ F[j].name = name
                            /\ \A h \in 1..Len(F) : (F[h].is_active /\ F[h].name = name) => h <= j
    IN  [k \in 1..Len(firsts) |-> lastOf(F[active[firsts[k]]].name)]

RECURSIVE SendPerForm(_, _, _, _, _, _, _)
\* the loop "for form_name, non_responders in all_non_responders.items()";
\* T is the store the lists were read from, acc what the sends did so far
SendPerForm(acc, T, names, k, cooldown, outcome, t) ==
    IF k > Len(names) THEN acc
    ELSE
    With(SsGetNonRespondersForForm(T.people, T.responses, T.forms[names[k]].id),
         LAMBDA non :
    With(EligibleForReminder(T.responses, non, cooldown, t),
         LAMBDA eligible :
        IF non = << >> \/ eligible = << >>
        THEN SendPerForm(acc, T, names, k + 1, cooldown, outcome, t)
        ELSE With(SendRemindersForFormList(T.people, T.forms, acc.responses, eligible,
                                           outcome, t),
                  LAMBDA sent :
                      SendPerForm([responses |-> sent.responses,
                                   msgs |-> acc.msgs \o sent.msgs,
                                   recorded |-> acc.recorded \cup sent.recorded],
                                  T, names, k + 1, cooldown, outcome, t))))

\* send_reminders_for_all_forms
SendRemindersForAllForms(S, syncFirst, cooldown, answers, raises, outcome, t) ==
    With(IF syncFirst THEN SyncAllForms(S, answers, raises, t) ELSE SyncOutcome("", S),
         LAMBDA sy :
    With(AllNonResponders(sy.store.forms),
         LAMBDA names :
        IF syncFirst /\ sy.status = "error"
        THEN SendReport("sync_failed", sy, sy.store.responses, NothingSent)
        ELSE IF names = << >>
        THEN SendReport("no_reminders_needed", sy, sy.store.responses, NothingSent)
        ELSE With(SendPerForm([responses |-> sy.store.responses, msgs |-> << >>,
                               recorded |-> {}],
                              sy.store, names, 1, cooldown, outcome, t),
                  LAMBDA done : SendReport("success", sy, done.responses, done))))

(* ------------- SQLiteDatabase (database/sqlite_manager.py) ----------- *)
\* a row of table forms; expected_people_ids is the JSON list
SqForm(id, name, gid, active, expected) ==
    [id |-> id, name |-> name, google_form_id |-> gid, is_active |-> active,
     expected_people_ids |-> expected]

SqGetPersonById(P, pid) == FirstIdx(P, LAMBDA p : p.id = pid)

\* SELECT * FROM people WHERE LOWER(email) = LOWER(?)
SqGetPersonByEmail(P, email) == FirstIdx(P, LAMBDA p : Lower(p.email) = Lower(email))

SqGetPersonByPsid(P, psid) == FirstIdx(P, LAMBDA p : p.psid = psid)

\* add_person; locked: another connection holds the write lock, the INSERT raises
SqAddPersonTo(P, person, locked) ==
    IF person.email # NoText /\ SqGetPersonByEmail(P, person.email) # 0
    THEN [ok |-> FALSE, people |-> P]
    ELSE IF person.psid # "" /\ SqGetPersonByPsid(P, person.psid) # 0
    THEN [ok |-> FALSE, people |-> P]
    ELSE IF locked THEN [ok |-> FALSE, people |-> P]
    ELSE [ok |-> TRUE, people |-> Append(P, person)]

\* idx_people_email / idx_people_psid: the partial unique indexes compare the
\* stored text as it is (BINARY collation), among rows where it is not empty
SqPeopleIndexClash(P, person) ==
    \E i \in 1..Len(P) :
        /\ P[i].id # person.id
        /\ \/ person.email # NoText /\ P[i].email = person.email
           \/ person.psid # "" /\ P[i].psid = person.psid

\* update_person of streamlit_app.py: UPDATE people SET name, email, psid WHERE id;
\* a clash with a unique index raises and the function returns False
SqUpdatePersonIn(P, person) ==
    IF SqGetPersonById(P, person.id) # 0 /\ SqPeopleIndexClash(P, person)
    THEN [ok |-> FALSE, people |-> P]
    ELSE [ok |-> SqGetPersonById(P, person.id) # 0,
          people |-> [i \in 1..Len(P) |-> IF P[i].id = person.id THEN person ELSE P[i]]]

\* delete_person: DELETE FROM people on a connection that never turns
\* foreign_keys on, so ON DELETE CASCADE of responses does not run
SqDeletePersonFrom(P, pid) ==
    [ok |-> \E i \in 1..Len(P) : P[i].id = pid,
     people |-> SelectSeq(P, LAMBDA p : p.id # pid)]

SqGetFormById(F, fid) == FirstIdx(F, LAMBDA f : f.id = fid)
SqGetFormByGoogleId(F, gid) == FirstIdx(F, LAMBDA f : f.google_form_id = gid)

SqRowsOf(R, f, p) == { i \in 1..Len(R) : R[i].form_id = f /\ R[i].person_id = p }

\* the unique index idx_responses_form_person accepts the rows
SqUniqueRows(R) ==
    \A i, j \in 1..Len(R) :
        (R[i].form_id = R[j].form_id /\ R[i].person_id = R[j].person_id) => i = j

\* an add_form that keeps the rows it inserted when it reports a duplicate
SqAddFormNoRollback(F, R, form) ==
    LET rows == [k \in 1..Len(form.expected_people_ids) |->
                    NewResponse(form.id, form.expected_people_ids[k], FALSE, NoTime, NoTime, 0)]
    IN  IF SqGetFormByGoogleId(F, form.google_form_id) # 0
        THEN [ok |-> FALSE, forms |-> F, responses |-> R \o rows]
        ELSE IF ~SqUniqueRows(R \o rows)
        THEN [ok |-> FALSE, forms |-> F, responses |-> R]
        ELSE [ok |-> TRUE, forms |-> Append(F, form), responses |-> R \o rows]

\* add_form: the form row and one pending row per expected id, in one transaction
SqAddFormTo(F, R, form) ==
    LET rows == [k \in 1..Len(form.expected_people_ids) |->
                    NewResponse(form.id, form.expected_people_ids[k], FALSE, NoTime, NoTime, 0)]
    IN  IF SqGetFormByGoogleId(F, form.google_form_id) # 0
        THEN [ok |-> FALSE, forms |-> F, responses |-> R]
        ELSE IF ~SqUniqueRows(R \o rows)
        THEN [ok |-> FALSE, forms |-> F, responses |-> R]
        ELSE [ok |-> TRUE, forms |-> Append(F, form), responses |-> R \o rows]

\* mark_as_responded: no row, no change and False; locked: the UPDATE raises
SqMarkAsRespondedIn(R, f, p, rdate, t, locked) ==
    IF SqRowsOf(R, f, p) = {} THEN [ok |-> FALSE, responses |-> R]
    ELSE IF locked THEN [ok |-> FALSE, responses |-> R]
    ELSE [ok |-> TRUE,
          responses |-> [i \in 1..Len(R) |->
              IF i \in SqRowsOf(R, f, p)
              THEN [R[i] EXCEPT !.has_responded = TRUE,
                                !.response_date = IF rdate = NoTime THEN t ELSE rdate]
              ELSE R[i]]]

\* record_reminder_sent: UPDATE ... WHERE form_id = ? AND person_id = ?; rowcount > 0
SqRecordReminderSentIn(R, f, p, t) ==
    [ok |-> SqRowsOf(R, f, p) # {},
     responses |-> [i \in 1..Len(R) |->
         IF i \in SqRowsOf(R, f, p)
         THEN [R[i] EXCEPT !.last_reminder = t, !.reminder_count = @ + 1]
         ELSE R[i]]]

\* responses r JOIN people p ON r.person_id = p.id, as << index in P, index in R >>
SqJoin(P, R, Test(_, _)) ==
    { << i, j >> \in (1..Len(P)) \X (1..Len(R)) : R[j].person_id = P[i].id /\ Test(P[i], R[j]) }

SqGetNonRespondersForForm(P, R, f) ==
    SqJoin(P, R, LAMBDA p, r : r.form_id = f /\ ~r.has_responded)

\* get_people_needing_reminders: cooldown_time = now - cooldown
SqGetPeopleNeedingReminders(P, R, f, cooldown, t) ==
    SqJoin(P, R, LAMBDA p, r :
        /\ r.form_id = f /\ ~r.has_responded
        /\ (r.last_reminder = NoTime \/ r.last_reminder < t - cooldown)
        /\ p.psid # "")

(* ----------- SQLiteDatabase.sync_google_forms_responses --------------- *)
\* The pass runs inside "with sqlite3.connect(...) as conn" and commits at its
\* end.  conn's first UPDATE opens its transaction and takes the write lock;
\* add_person, get_person_by_* and mark_as_responded each open a connection of
\* their own, which reads committed rows only and cannot write while conn
\* holds the lock.
\*   people, responses : committed rows;  forms, rows : what conn has written
SqSyncState(P, F, R, issued) ==
    [people |-> P, forms |-> F, responses |-> R, rows |-> << >>, locked |-> FALSE,
     issued |-> issued, full |-> FALSE, updated |-> 0, created |-> 0, errors |-> 0]

\* response_date of the sync loop: the parsed timestamp, now when it is absent
\* or does not parse
SqParseTimestamp(ts, t) == IF ts = NoTime \/ ts = BadTime THEN t ELSE ts

\* the person of the expected list whose email.lower().strip() is email, 0 when none
SqFindExpected(P, expected, email) ==
    LET hit(pid) == /\ SqGetPersonById(P, pid) # 0
                    /\ P[SqGetPersonById(P, pid)].email # NoText
                    /\ NormalizeEmail(P[SqGetPersonById(P, pid)].email) = email
        k == FirstIdx(expected, hit)
    IN  IF k = 0 THEN 0 ELSE SqGetPersonById(P, expected[k])

\* one submission for the form at index f of the table (expected: the local list)
SqSyncOne(st, f, expected, sub, t) ==
    LET fid == st.forms[f].id
        email == NormalizeEmail(sub.email)
        inExpected == SqFindExpected(st.people, expected, email)
        found == IF inExpected # 0 THEN inExpected ELSE SqGetPersonByEmail(st.people, email)
        mark(s, pid) ==
            LET m == SqMarkAsRespondedIn(s.responses, fid, pid,
                                         SqParseTimestamp(sub.timestamp, t), t, s.locked)
            IN  IF m.ok THEN [s EXCEPT !.responses = m.responses, !.updated = @ + 1]
                ELSE [s EXCEPT !.errors = @ + 1]
        person == NewPerson(st.issued + 1, email, "")
        a == SqAddPersonTo(st.people, person, st.locked)
    IN  IF email = NoText THEN [st |-> st, expected |-> expected]
        ELSE IF found # 0 THEN [st |-> mark(st, st.people[found].id), expected |-> expected]
        ELSE IF st.issued >= MaxPeople THEN [st |-> [st EXCEPT !.full = TRUE], expected |-> expected]
        ELSE IF ~a.ok THEN [st |-> [st EXCEPT !.errors = @ + 1], expected |-> expected]
        ELSE [st |-> mark([st EXCEPT
                             !.people = a.people, !.issued = @ + 1, !.created = @ + 1,
                             !.locked = TRUE,
                             !.forms[f].expected_people_ids = Append(expected, person.id),
                             !.rows = Append(@, NewResponse(fid, person.id, FALSE,
                                                            NoTime, NoTime, 0))],
                          person.id),
              expected |-> Append(expected, person.id)]

RECURSIVE SqSyncSubs(_, _, _, _, _, _)
SqSyncSubs(st, f, expected, subs, k, t) ==
    IF k > Len(subs) THEN st
    ELSE With(SqSyncOne(st, f, expected, subs[k], t),
              LAMBDA one : SqSyncSubs(one.st, f, one.expected, subs, k + 1, t))

RECURSIVE SqSyncForms(_, _, _, _, _)
\* F: the committed table forms, which get_form_by_google_id reads
SqSyncForms(st, F, google_responses, k, t) ==
    IF k > Len(google_responses) THEN st
    ELSE LET f == SqGetFormByGoogleId(F, google_responses[k][1])
         IN  IF f = 0
             THEN SqSyncForms([st EXCEPT !.errors = @ + 1], F, google_responses, k + 1, t)
             ELSE SqSyncForms(SqSyncSubs(st, f, F[f].expected_people_ids,
                                         google_responses[k][2], 1, t),
                              F, google_responses, k + 1, t)

\* the pass and conn.commit(): conn's rows join the table
SqSyncGoogleFormsResponses(P, F, R, issued, google_responses, t) ==
    With(SqSyncForms(SqSyncState(P, F, R, issued), F, google_responses, 1, t),
         LAMBDA st : [st EXCEPT !.responses = st.responses \o st.rows, !.rows = << >>,
                                !.locked = FALSE])

(* --------------- update_form_complete (streamlit_app.py) -------------- *)
\* the stored data of person pid's row of form fid, a fresh Response when none
SqReconciled(R, fid, pid) ==
    IF SqRowsOf(R, fid, pid) = {} THEN NewResponse(fid, pid, FALSE, NoTime, NoTime, 0)
    ELSE R[CHOOSE i \in SqRowsOf(R, fid, pid) : \A j \in SqRowsOf(R, fid, pid) : j <= i]

\* one transaction: UPDATE forms, DELETE the form's rows, INSERT one row per
\* expected id; an IntegrityError rolls everything back
SqUpdateFormComplete(F, R, fid, name, gid, active, expected) ==
    LET f == SqGetFormById(F, fid)
        others == SelectIdx(R, LAMBDA r : r.form_id # fid, 1)
        kept == [k \in 1..Len(others) |-> R[others[k]]]
        rows == [k \in 1..Len(expected) |-> SqReconciled(R, fid, expected[k])]
        clash == \E i \in 1..Len(F) : i # f /\ F[i].google_form_id = gid
    IN  IF f = 0 THEN [ok |-> FALSE, forms |-> F, responses |-> R]
        ELSE IF clash \/ ~SqUniqueRows(kept \o rows)
        THEN [ok |-> FALSE, forms |-> F, responses |-> R]
        ELSE [ok |-> TRUE,
              forms |-> [F EXCEPT ![f] = SqForm(fid, name, gid, active, expected)],
              responses |-> kept \o rows]

(* ------------------- ReminderService.preview_reminders ---------------- *)
\* a filter that lists the people without a Messenger handle too
PreviewEligibleAnyHandle(S, f, cooldown, t) ==
    { e \in Range(SsGetNonRespondersForForm(S.people, S.responses, f)) :
        CanSendReminder(S.responses[e[2]], cooldown, t) }

\* the filter "if response.can_send_reminder(cooldown_hours) and person.psid"
PreviewEligible(S, f, cooldown, t) ==
    { e \in Range(SsGetNonRespondersForForm(S.people, S.responses, f)) :
        CanSendReminder(S.responses[e[2]], cooldown, t) /\ S.people[e[1]].psid # "" }

RECURSIVE PreviewTotal(_, _, _, _, _)
\* total_reminders over the entries of get_all_non_responders
PreviewTotal(S, names, k, cooldown, t) ==
    IF k > Len(names) THEN 0
    ELSE Cardinality(PreviewEligible(S, S.forms[names[k]].id, cooldown, t))
            + PreviewTotal(S, names, k + 1, cooldown, t)

\* a preview that records a reminder for every person it lists
PreviewThatRecords(S, fid, cooldown, t) ==
    [status |-> "success",
     store |-> [S EXCEPT !.responses =
                   [i \in 1..Len(S.responses) |->
                       IF \E e \in PreviewEligible(S, S.responses[i].form_id, cooldown, t) :
                              e[2] = i
                       THEN RespRecordReminderSent(S.responses[i], t)
                       ELSE S.responses[i]]],
     msgs |-> << >>, recorded |-> {}, entries |-> Len(AllNonResponders(S.forms)),
     total |-> PreviewTotal(S, AllNonResponders(S.forms), 1, cooldown, t)]

\* preview_reminders(form_id, cooldown_hours); fid = 0: form_id is omitted.
\* It calls get_form_by_id, get_non_responders_for_form and
\* get_all_non_responders, which read the session state, and no method of the
\* MessengerService; store is the store when it returns
PreviewReminders(S, fid, cooldown, t) ==
    IF fid # 0 /\ SsGetFormById(S.forms, fid) = 0
    THEN [status |-> "error", store |-> S, msgs |-> << >>, recorded |-> {}, total |-> 0,
          entries |-> 0]
    ELSE [status |-> "success", store |-> S, msgs |-> << >>, recorded |-> {},
          entries |-> IF fid # 0 THEN 1 ELSE Len(AllNonResponders(S.forms)),
          total |-> IF fid # 0 THEN Cardinality(PreviewEligible(S, fid, cooldown, t))
                    ELSE PreviewTotal(S, AllNonResponders(S.forms), 1, cooldown, t)]

(* ---------------- Database (STN-botv3/database.py) -------------------- *)
\* a row of v3's table responses: it has no reminder_count and no response_date
V3Response(f, p) ==
    [form_id |-> f, person_id |-> p, has_responded |-> FALSE, last_reminder |-> NoTime]

V3Form(id, gid, people_ids) == [id |-> id, google_id |-> gid, people_ids |-> people_ids]

\* add_person: INSERT INTO people; only the primary key can clash
V3AddPersonTo(P, person) ==
    IF \E i \in 1..Len(P) : P[i].id = person.id THEN [ok |-> FALSE, people |-> P]
    ELSE [ok |-> TRUE, people |-> Append(P, person)]

\* add_form: google_id is UNIQUE; one row per entry of people_ids
V3AddFormTo(F, R, form) ==
    IF \E i \in 1..Len(F) : F[i].google_id = form.google_id
    THEN [ok |-> FALSE, forms |-> F, responses |-> R]
    ELSE [ok |-> TRUE, forms |-> Append(F, form),
          responses |-> R \o [k \in 1..Len(form.people_ids) |->
                                 V3Response(form.id, form.people_ids[k])]]

\* delete_person: DELETE FROM people; responses has no cascade
V3DeletePersonFrom(P, pid) ==
    [ok |-> \E i \in 1..Len(P) : P[i].id = pid,
     people |-> SelectSeq(P, LAMBDA p : p.id # pid)]

\* STNBot.update_form (app.py): UPDATE forms, DELETE the form's rows, INSERT one
\* row per entry of people_ids; returns rowcount > 0 of the UPDATE, and False
\* with nothing changed when google_id clashes with another form
V3UpdateFormTo(F, R, fid, gid, people_ids) ==
    LET known == \E i \in 1..Len(F) : F[i].id = fid
        clash == \E i \in 1..Len(F) : F[i].id # fid /\ F[i].google_id = gid
        rows == [k \in 1..Len(people_ids) |-> V3Response(fid, people_ids[k])]
    IN  IF known /\ clash THEN [ok |-> FALSE, forms |-> F, responses |-> R]
        ELSE [ok |-> known,
              forms |-> [i \in 1..Len(F) |->
                            IF F[i].id = fid THEN V3Form(fid, gid, people_ids) ELSE F[i]],
              responses |-> SelectSeq(R, LAMBDA r : r.form_id # fid) \o rows]

\* mark_responded: UPDATE ... SET has_responded = 1; rowcount > 0
V3MarkRespondedIn(R, f, p) ==
    [ok |-> \E i \in 1..Len(R) : R[i].form_id = f /\ R[i].person_id = p,
     responses |-> [i \in 1..Len(R) |->
         IF R[i].form_id = f /\ R[i].person_id = p
         THEN [R[i] EXCEPT !.has_responded = TRUE] ELSE R[i]]]

\* record_reminder: UPDATE ... SET last_reminder = now
V3RecordReminderIn(R, f, p, t) ==
    [i \in 1..Len(R) |->
        IF R[i].form_id = f /\ R[i].person_id = p
        THEN [R[i] EXCEPT !.last_reminder = t] ELSE R[i]]

\* get_non_responders: people JOIN responses, as << index in P, index in R >>
V3GetNonResponders(P, R, f) ==
    LET idxs == SelectIdx(R, LAMBDA r : r.form_id = f /\ ~r.has_responded, 1)
        keep == SelectIdx(idxs, LAMBDA i : \E k \in 1..Len(P) : P[k].id = R[i].person_id, 1)
    IN  [k \in 1..Len(keep) |->
            << CHOOSE i \in 1..Len(P) : P[i].id = R[idxs[keep[k]]].person_id, idxs[keep[k]] >>]

(* ------------- ReminderService (STN-botv3/services.py) ---------------- *)
\* MessengerService.send_message of v3: True on HTTP 200 only
V3SendMessage(outcome) == outcome = "sent"

\* the test that guards record_reminder in send_reminders
V3SendSucceeded(sent) == sent

RECURSIVE V3SendLoop(_, _, _, _, _, _, _)
\* "for person, response in non_responders"; outcomes[k] is how the k-th entry's
\* send ends
V3SendLoop(acc, P, non, f, outcomes, k, t) ==
    IF k > Len(non) THEN acc
    ELSE LET person == P[non[k][1]]
         IN  IF person.psid = ""
             THEN V3SendLoop([acc EXCEPT !.failed = @ + 1], P, non, f, outcomes, k + 1, t)
             ELSE IF V3SendSucceeded(V3SendMessage(outcomes[k]))
             THEN V3SendLoop(
                      [acc EXCEPT !.responses = V3RecordReminderIn(@, f, person.id, t),
                                  !.sent = @ + 1,
                                  !.recorded = @ \cup { << f, person.id >> },
                                  !.msgs = Append(@, [form |-> f, person |-> person.id,
                                                      success |-> TRUE])],
                      P, non, f, outcomes, k + 1, t)
             ELSE V3SendLoop(
                      [acc EXCEPT !.failed = @ + 1,
                                  !.msgs = Append(@, [form |-> f, person |-> person.id,
                                                      success |-> FALSE])],
                      P, non, f, outcomes, k + 1, t)

\* send_reminders
V3SendReminders(P, R, f, outcomes, t) ==
    V3SendLoop([responses |-> R, sent |-> 0, failed |-> 0, recorded |-> {}, msgs |-> << >>],
               P, V3GetNonResponders(P, R, f), f, outcomes, 1, t)

(* ---- get_health_check ---- *)
\* a health check that deletes the rows it counted
HealthCheckThatRepairs(S, withoutPole) ==
    LET orphans == { i \in 1..Len(S.responses) :
                        \/ SsGetPersonById(S.people, S.responses[i].person_id) = 0
                        \/ SsGetFormById(S.forms, S.responses[i].form_id) = 0 }
    IN  [status |-> IF orphans = {} /\ withoutPole = 0 THEN "healthy" ELSE "warning",
         orphaned |-> Cardinality(orphans),
         store |-> [S EXCEPT !.responses = SelectSeq(S.responses, LAMBDA r :
                        /\ SsGetPersonById(S.people, r.person_id) # 0
                        /\ SsGetFormById(S.forms, r.form_id) # 0)]]

\* get_health_check of both stores: the rows whose person or form is not
\* there are counted; the SQLite store also counts the forms without a pole
\* (withoutPole, always 0 in the session store); nothing is written
GetHealthCheck(S, withoutPole) ==
    LET orphans == { i \in 1..Len(S.responses) :
                        \/ SsGetPersonById(S.people, S.responses[i].person_id) = 0
                        \/ SsGetFormById(S.forms, S.responses[i].form_id) = 0 }
    IN  [status |-> IF orphans = {} /\ withoutPole = 0 THEN "healthy" ELSE "warning",
         orphaned |-> Cardinality(orphans),
         store |-> S]

(* ------------- ServiceFactory (services/factory.py) ------------------ *)
ServiceNames == { "google_forms", "messenger", "reminder", "other" }

\* what the settings hold: nothing at all (settings is None), or each key set or not
SettingsChoices ==
    { [loaded |-> FALSE, page_token |-> FALSE, google_app_script_url |-> FALSE] } \cup
    [loaded : { TRUE }, page_token : BOOLEAN, google_app_script_url : BOOLEAN]

\* _instances (0: no entry), _initialization_errors ("": no entry), and the
\* number of constructor calls made so far, which names the instances
NewFactory ==
    [instances |-> [n \in ServiceNames |-> 0],
     errors |-> [n \in ServiceNames |-> ""],
     issued |-> 0]

\* _check_service_requirements
CheckServiceRequirements(name, settings) ==
    IF ~settings.loaded THEN FALSE
    ELSE IF name = "google_forms" THEN settings.google_app_script_url
    ELSE IF name = "messenger" THEN settings.page_token
    ELSE IF name = "reminder" THEN settings.page_token /\ settings.google_app_script_url
    ELSE TRUE

\* a get_service that forgets a failure and tries the constructor again
GetServiceThatRetries(F, name, required, settings, ctorRaises) ==
    IF F.instances[name] # 0
    THEN [f |-> F, instance |-> F.instances[name], raised |-> FALSE, constructed |-> FALSE]
    ELSE IF ~CheckServiceRequirements(name, settings)
    THEN [f |-> [F EXCEPT !.errors[name] = IF required THEN "init" ELSE "config"],
          instance |-> 0, raised |-> required, constructed |-> FALSE]
    ELSE IF ctorRaises
    THEN [f |-> [F EXCEPT !.errors[name] = "init", !.issued = @ + 1],
          instance |-> 0, raised |-> required, constructed |-> TRUE]
    ELSE [f |-> [F EXCEPT !.instances[name] = F.issued + 1, !.issued = @ + 1],
          instance |-> F.issued + 1, raised |-> FALSE, constructed |-> TRUE]

\* ServiceFactory.get_service: [f, instance (0: None), raised, constructed].
\* The raise for a required service without configuration is inside the try:
\* the except takes it, writes its own message over the first and raises again
GetService(F, name, required, settings, ctorRaises) ==
    IF F.instances[name] # 0
    THEN [f |-> F, instance |-> F.instances[name], raised |-> FALSE, constructed |-> FALSE]
    ELSE IF F.errors[name] # ""
    THEN [f |-> F, instance |-> 0, raised |-> required, constructed |-> FALSE]
    ELSE IF ~CheckServiceRequirements(name, settings)
    THEN [f |-> [F EXCEPT !.errors[name] = IF required THEN "init" ELSE "config"],
          instance |-> 0, raised |-> required, constructed |-> FALSE]
    ELSE IF ctorRaises
    THEN [f |-> [F EXCEPT !.errors[name] = "init", !.issued = @ + 1],
          instance |-> 0, raised |-> required, constructed |-> TRUE]
    ELSE [f |-> [F EXCEPT !.instances[name] = F.issued + 1, !.issued = @ + 1],
          instance |-> F.issued + 1, raised |-> FALSE, constructed |-> TRUE]

\* ServiceFactory.reset
FactoryReset(F) ==
    [F EXCEPT !.instances = [n \in ServiceNames |-> 0],
              !.errors = [n \in ServiceNames |-> ""]]

(* ---- sync_google_forms_responses, statement by statement ---- *)
\* two browser sessions can each run a pass on the same file
SyncWorkers == { 1, 2 }

\* a pass: where it stands (pc), its local variables, what conn has written
\* and not committed (wrote, rows, locked), and its sync_stats
NoSync ==
    [pc |-> "idle", f |-> 0, expected |-> << >>, subs |-> << >>, k |-> 0,
     email |-> NoText, person |-> 0, wrote |-> FALSE, rows |-> << >>, locked |-> FALSE,
     unknown |-> 0, created |-> 0, updated |-> 0, errors |-> 0]

\* an INSERT INTO people that no unique index guards
SqInsertPersonNoIndex(P, person, locked) ==
    IF locked
    THEN [ok |-> FALSE, people |-> P]
    ELSE [ok |-> TRUE, people |-> Append(P, person)]

\* the INSERT INTO people of add_person: it raises when the file is locked or
\* a unique index refuses the row, and add_person returns False
SqInsertPerson(P, person, locked) ==
    IF locked \/ SqPeopleIndexClash(P, person)
    THEN [ok |-> FALSE, people |-> P]
    ELSE [ok |-> TRUE, people |-> Append(P, person)]

\* the loop moves to the next submission, or leaves the loops
SyncAdvance(y) ==
    [y EXCEPT !.k = @ + 1, !.pc = IF y.k + 1 > Len(y.subs) THEN "finish" ELSE "lookup"]

\* an exception reaches the outer except: errors += 1, conn rolls back
SyncAbort(y) ==
    [y EXCEPT !.pc = "done", !.errors = @ + 1, !.wrote = FALSE, !.rows = << >>,
              !.locked = FALSE]

(* ------------------------------ actions ------------------------------ *)
\* "app" is streamlit_app.py as it is wired: its db is the SQLiteDatabase of
\* database/__init__.py, its reminder service holds the StreamlitDatabase of
\* database/managers.py
Impls == { "session", "reminders", "sqlite", "v3", "app" }

Init ==
    /\ impl \in Impls
    /\ now = 0
    /\ issuedPeople = 0
    /\ issuedForms = 0
    /\ ssPeople = << >>
    /\ ssForms = << >>
    /\ ssResponses = << >>
    /\ dbPeople = << >>
    /\ dbForms = << >>
    /\ dbResponses = << >>
    /\ last = NoReport
    /\ syncs = [w \in SyncWorkers |-> NoSync]
    /\ messenger = NewMessenger
    /\ factory = NewFactory

SetLast(r) == last' = r

\* the report of an operation whose result nothing below looks at
Idle == Report("idle", << >>)

\* no reminder_count beyond the bound
WithinReminderCap(R) == \A i \in 1..Len(R) : R[i].reminder_count <= MaxReminders

\* time passes
Tick ==
    /\ now < MaxTime
    /\ now' = now + 1
    /\ SetLast(Idle)
    /\ UNCHANGED << factory, messenger, syncs, impl, issuedPeople, issuedForms, ssVars, dbVars >>

(* ---- StreamlitDatabase ---- *)
OnSession == impl \in { "session", "reminders" }

SsAddPerson ==
    /\ OnSession
    /\ issuedPeople < MaxPeople
    /\ \E inp \in PersonInputs :
        LET person == NewPerson(issuedPeople + 1, inp.email, inp.psid)
            res == SsAddPersonTo(ssPeople, person)
        IN  /\ ssPeople' = res.people
            /\ issuedPeople' = IF res.ok THEN issuedPeople + 1 ELSE issuedPeople
            /\ SetLast(Idle)
    /\ UNCHANGED << factory, messenger, syncs, impl, now, issuedForms, ssForms, ssResponses, dbVars >>

\* StreamlitDatabase.add_form
SsAddForm ==
    /\ OnSession
    /\ \E inp \in FormInputs :
        LET form == NewForm(issuedForms + 1, inp.name, inp.google_form_id, inp.is_active)
            dup == SsGetFormByGoogleId(ssForms, inp.google_form_id) # 0
        IN  /\ ~dup => issuedForms < MaxForms
            /\ ssForms' = IF dup THEN ssForms ELSE Append(ssForms, form)
            /\ issuedForms' = IF dup THEN issuedForms ELSE issuedForms + 1
            /\ SetLast(Report("add_form", [ok |-> ~dup, form |-> form.id,
                                           gid |-> inp.google_form_id]))
    /\ UNCHANGED << factory, messenger, syncs, impl, now, issuedPeople, ssPeople, ssResponses, dbVars >>

\* StreamlitDatabase.add_form for one more form, which bears the name of a form
\* that is there: names are free text and only google_form_id is compared
SsAddFormSameName ==
    /\ OnSession
    /\ issuedForms < MaxNamesakes
    /\ \E i \in 1..Len(ssForms), gid \in GoogleIds, active \in BOOLEAN :
        LET form == NewForm(issuedForms + 1, ssForms[i].name, gid, active)
            dup == SsGetFormByGoogleId(ssForms, gid) # 0
        IN  /\ ssForms' = IF dup THEN ssForms ELSE Append(ssForms, form)
            /\ issuedForms' = IF dup THEN issuedForms ELSE issuedForms + 1
            /\ SetLast(Report("add_form", [ok |-> ~dup, form |-> form.id, gid |-> gid]))
    /\ UNCHANGED << factory, messenger, syncs, impl, now, issuedPeople, ssPeople, ssResponses, dbVars >>

\* StreamlitDatabase.add_or_update_response, given Response(form_id, person_id)
\* with the dataclass defaults (the way a pending row comes to exist in this store)
SsAddOrUpdateResponse ==
    /\ OnSession
    /\ \E f \in 1..issuedForms, p \in 1..issuedPeople :
        LET res == SsAddOrUpdateResponseTo(ssResponses,
                                           NewResponse(f, p, FALSE, NoTime, NoTime, 0))
        IN  /\ ssResponses' = res.responses
            /\ SetLast(Idle)
    /\ UNCHANGED << factory, messenger, syncs, impl, now, issuedPeople, issuedForms, ssPeople, ssForms, dbVars >>

\* StreamlitDatabase.mark_as_responded
SsMarkAsResponded ==
    /\ impl = "session"
    /\ \E f \in 1..issuedForms, p \in 1..issuedPeople, rdate \in {NoTime, SubmittedAt} :
        LET res == SsMarkAsRespondedIn(ssResponses, f, p, rdate, now)
        IN  /\ ssResponses' = res.responses
            /\ SetLast(Report("mark_as_responded",
                              [ok |-> res.ok, form |-> f, person |-> p]))
    /\ UNCHANGED << factory, messenger, syncs, impl, now, issuedPeople, issuedForms, ssPeople, ssForms, dbVars >>

\* StreamlitDatabase.record_reminder_sent
SsRecordReminderSent ==
    /\ impl = "session"
    /\ \E f \in 1..issuedForms, p \in 1..issuedPeople :
        LET res == SsRecordReminderSentIn(ssResponses, f, p, now)
        IN  /\ WithinReminderCap(res.responses)
            /\ ssResponses' = res.responses
            /\ SetLast(Idle)
    /\ UNCHANGED << factory, messenger, syncs, impl, now, issuedPeople, issuedForms, ssPeople, ssForms, dbVars >>

\* StreamlitDatabase.delete_person
SsDeletePerson ==
    /\ impl = "session"
    /\ \E p \in 1..issuedPeople :
        LET res == SsDeletePersonFrom(ssPeople, ssResponses, p)
        IN  /\ ssPeople' = res.people
            /\ ssResponses' = res.responses
            /\ SetLast(Report("delete_person", [ok |-> res.ok, person |-> p]))
    /\ UNCHANGED << factory, messenger, syncs, impl, now, issuedPeople, issuedForms, ssForms, dbVars >>

(* ---- ReminderService (v2) ---- *)
SsStore == Store(ssPeople, ssForms, ssResponses, issuedPeople)

\* what the App Script may answer for one form
AnswerChoices ==
    { [failed |-> TRUE, people |-> << >>, emails |-> << >>],
      [failed |-> FALSE, people |-> << >>, emails |-> << >>],
      [failed |-> FALSE, people |-> << Submission(<<"A", " ">>, SubmittedAt) >>,
                         emails |-> << <<"a">> >>],
      [failed |-> FALSE, people |-> << Submission(NoText, SubmittedAt),
                                       Submission(<<"b">>, BadTime) >>,
                         emails |-> << <<"A", " ">> >>] }

NoAnswers == [g \in GoogleIds |-> [failed |-> FALSE, people |-> << >>, emails |-> << >>]]

\* the environment of one send: the App Script's answers, whether the sync step
\* raises, and which sends the Send API accepts
Failures == Outcomes \ {"sent"}
AllFail == [pair \in (FormIds \X PersonIds) |-> "timeout"]
\* the pairs a send writes to; which they are does not depend on how the sends end
Addressed(rep) == { << rep.msgs[k].form, rep.msgs[k].person >> : k \in 1..Len(rep.msgs) }
OutcomeChoices(pairs) ==
    { [pair \in (FormIds \X PersonIds) |-> IF pair \in okPairs THEN "sent" ELSE failure] :
        okPairs \in SUBSET pairs,
        failure \in IF pairs = {} THEN {"timeout"} ELSE Failures }

\* the sync step of a send: skipped, raising, or fed the App Script's answers
SyncChoices(syncFirst, gids) ==
    IF ~syncFirst THEN { [raises |-> FALSE, answers |-> NoAnswers] }
    ELSE { [raises |-> TRUE, answers |-> NoAnswers] } \cup
         { [raises |-> FALSE,
            answers |-> [g \in GoogleIds |-> IF g \in gids THEN a[g] ELSE NoAnswers[g]]] :
             a \in [GoogleIds -> AnswerChoices] }

\* the google ids the sync step asks the App Script about: the form's own
\* (sync_specific_form), those of the active forms (sync_all_forms)
UsedGoogleIds(F, fids, activeOnly) ==
    { F[i].google_form_id :
        i \in { j \in 1..Len(F) : F[j].id \in fids /\ (activeOnly => F[j].is_active) } }
        \cap GoogleIds

\* every request of the sync step failed
FetchFailed(env, gids) == ~env.raises /\ gids # {} /\ \A g \in gids : env.answers[g].failed

ApplySend(op, fields, rep) ==
    /\ ~rep.full
    /\ WithinReminderCap(rep.store.responses)
    /\ ssPeople' = rep.store.people
    /\ ssResponses' = rep.store.responses
    /\ issuedPeople' = rep.store.issued
    /\ SetLast(Report(op, fields @@
                 [status |-> rep.status, syncStatus |-> rep.syncStatus,
                  msgs |-> rep.msgs, recorded |-> rep.recorded]))
    /\ UNCHANGED << factory, messenger, syncs, impl, now, issuedForms, ssForms, dbVars >>

\* ReminderService.send_reminders_for_form
DoSendRemindersForForm ==
    /\ impl \in { "reminders", "app" }
    /\ \E fid \in 1..issuedForms, cooldown \in Cooldowns, syncFirst \in BOOLEAN :
       \E env \in SyncChoices(syncFirst, UsedGoogleIds(ssForms, {fid}, FALSE)) :
       \E outcome \in OutcomeChoices(Addressed(
                          SendRemindersForForm(SsStore, fid, syncFirst, cooldown, env.answers,
                                               env.raises, AllFail, now))) :
       \E rep \in { SendRemindersForForm(SsStore, fid, syncFirst, cooldown, env.answers,
                                         env.raises, outcome, now) } :
            ApplySend("send_reminders_for_form",
                      [form |-> fid, syncFirst |-> syncFirst, cooldown |-> cooldown,
                       fetchFailed |-> FetchFailed(env, UsedGoogleIds(ssForms, {fid}, FALSE))],
                      rep)

\* ReminderService.send_reminders_for_all_forms
DoSendRemindersForAllForms ==
    /\ impl = "reminders"
    /\ \E cooldown \in Cooldowns, syncFirst \in BOOLEAN :
       \E env \in SyncChoices(syncFirst, UsedGoogleIds(ssForms, FormIds, TRUE)) :
       \E outcome \in OutcomeChoices(Addressed(
                          SendRemindersForAllForms(SsStore, syncFirst, cooldown, env.answers,
                                                   env.raises, AllFail, now))) :
       \E rep \in { SendRemindersForAllForms(SsStore, syncFirst, cooldown, env.answers,
                                             env.raises, outcome, now) } :
            ApplySend("send_reminders_for_all_forms",
                      [syncFirst |-> syncFirst,
                       fetchFailed |-> FetchFailed(env, UsedGoogleIds(ssForms, FormIds, TRUE))],
                      rep)

\* ReminderService.preview_reminders
DoPreviewReminders ==
    /\ OnSession \/ impl = "app"
    /\ \E fid \in 0..MaxForms, cooldown \in Cooldowns :
       \E rep \in { PreviewReminders(SsStore, fid, cooldown, now) } :
            /\ ssPeople' = rep.store.people
            /\ ssForms' = rep.store.forms
            /\ ssResponses' = rep.store.responses
            /\ issuedPeople' = rep.store.issued
            /\ SetLast(Report("preview_reminders",
                    [form |-> fid, status |-> rep.status, msgs |-> rep.msgs,
                     recorded |-> rep.recorded, total |-> rep.total,
                     entries |-> rep.entries, cooldown |-> cooldown]))
    /\ UNCHANGED << factory, messenger, syncs, impl, now, issuedForms, dbVars >>

(* ---- MessengerService ---- *)
\* how long a POST may take, in seconds: no time to speak of, the delay, longer
PostDurations == 0..2

\* the messages of a bulk: one or two recipients
BulkInputs == { << "h1" >>, << "h1", "h2" >>, << "h2", "h1" >> }

\* time passes between two calls of the service
MessengerIdle ==
    /\ messenger.elapsed < RateLimitDelay
    /\ messenger' = [messenger EXCEPT !.elapsed = Min(@ + 1, RateLimitDelay)]
    /\ SetLast(Idle)
    /\ UNCHANGED << factory, syncs, impl, now, issuedPeople, issuedForms, ssVars, dbVars >>

\* MessengerService.send_message, one call at a time; the POST takes the delay
\* (how long it takes matters to the pause of a bulk, not to the history)
DoSendMessage ==
    /\ messenger.written[1] < MaxSingleSends
    /\ \E u \in BrowserSessions, psid \in { "h1" }, d \in { RateLimitDelay },
          outcome \in Outcomes :
       \E one \in { SendMessageAt(messenger, u, 0, psid, d, outcome) } :
            messenger' = [one.m EXCEPT !.input = << psid >>, !.results = << one.result >>]
    /\ SetLast(Idle)
    /\ UNCHANGED << factory, syncs, impl, now, issuedPeople, issuedForms, ssVars, dbVars >>

\* MessengerService.send_bulk_messages
DoSendBulkMessages ==
    /\ \E psids \in BulkInputs :
       \E env \in [1..Len(psids) -> [d : PostDurations, outcome : Outcomes]] :
            /\ messenger.written[1] + Len(psids) <= MaxSends
            /\ messenger' = SendBulkMessages(messenger, 1, psids, env)
    /\ SetLast(Idle)
    /\ UNCHANGED << factory, syncs, impl, now, issuedPeople, issuedForms, ssVars, dbVars >>

(* ---- SQLiteDatabase ---- *)
\* the lists of person ids a caller may hand over as a form's expected people
\* (one id, two ids in the order people are listed, one id twice)
ExpectedChoices(issued) ==
    { << >> } \cup { << p >> : p \in 1..issued }
        \cup { pq \in { << p, q >> : p \in 1..issued, q \in 1..issued } : pq[1] <= pq[2] }

SqAddPerson ==
    /\ impl \in { "sqlite", "app" }
    /\ issuedPeople < MaxPeople
    /\ \E inp \in PersonInputs :
        LET person == NewPerson(issuedPeople + 1, inp.email, inp.psid)
            res == SqAddPersonTo(dbPeople, person, FALSE)
        IN  /\ dbPeople' = res.people
            /\ issuedPeople' = IF res.ok THEN issuedPeople + 1 ELSE issuedPeople
            /\ SetLast(Idle)
    /\ UNCHANGED << factory, messenger, syncs, impl, now, issuedForms, dbForms, dbResponses, ssVars >>

\* SQLiteDatabase.add_form
SqAddForm ==
    /\ impl \in { "sqlite", "app" }
    /\ \E inp \in FormInputs, expected \in ExpectedChoices(issuedPeople) :
        LET form == SqForm(issuedForms + 1, inp.name, inp.google_form_id, inp.is_active,
                           expected)
            res == SqAddFormTo(dbForms, dbResponses, form)
        IN  /\ res.ok => issuedForms < MaxForms
            /\ dbForms' = res.forms
            /\ dbResponses' = res.responses
            /\ issuedForms' = IF res.ok THEN issuedForms + 1 ELSE issuedForms
            /\ SetLast(Report("add_form", [ok |-> res.ok, form |-> form.id,
                                           gid |-> inp.google_form_id]))
    /\ UNCHANGED << factory, messenger, syncs, impl, now, issuedPeople, dbPeople, ssVars >>

\* SQLiteDatabase.mark_as_responded
SqMarkAsResponded ==
    /\ impl = "sqlite"
    /\ \E f \in 1..issuedForms, p \in 1..issuedPeople, rdate \in {NoTime, SubmittedAt} :
        LET res == SqMarkAsRespondedIn(dbResponses, f, p, rdate, now, FALSE)
        IN  /\ dbResponses' = res.responses
            /\ SetLast(Report("mark_as_responded",
                              [ok |-> res.ok, form |-> f, person |-> p]))
    /\ UNCHANGED << factory, messenger, syncs, impl, now, issuedPeople, issuedForms, dbPeople, dbForms, ssVars >>

\* SQLiteDatabase.record_reminder_sent
SqRecordReminderSent ==
    /\ impl = "sqlite"
    /\ \E f \in 1..issuedForms, p \in 1..issuedPeople :
        LET res == SqRecordReminderSentIn(dbResponses, f, p, now)
        IN  /\ WithinReminderCap(res.responses)
            /\ dbResponses' = res.responses
            /\ SetLast(Idle)
    /\ UNCHANGED << factory, messenger, syncs, impl, now, issuedPeople, issuedForms, dbPeople, dbForms, ssVars >>

\* SQLiteDatabase.sync_google_forms_responses({gid: get_form_responses(gid)})
SqSync ==
    /\ impl = "sqlite"
    /\ \E gid \in GoogleIds, answer \in AnswerChoices :
       \E subs \in { GetFormResponses(answer) } :
       \E st \in { SqSyncGoogleFormsResponses(dbPeople, dbForms, dbResponses, issuedPeople,
                                               << << gid, subs >> >>, now) } :
            /\ ~st.full
            /\ dbPeople' = st.people
            /\ dbForms' = st.forms
            /\ dbResponses' = st.responses
            /\ issuedPeople' = st.issued
            /\ SetLast(Report("sync",
                   [form |-> IF SqGetFormByGoogleId(dbForms, gid) = 0 THEN 0
                             ELSE dbForms[SqGetFormByGoogleId(dbForms, gid)].id,
                    subs |-> subs, created |-> st.created, updated |-> st.updated,
                    errors |-> st.errors]))
    /\ UNCHANGED << factory, messenger, syncs, impl, now, issuedForms, ssVars >>

\* update_form_complete, the form's other attributes given back as they are
SqUpdateForm ==
    /\ impl = "sqlite"
    /\ \E f \in 1..Len(dbForms), expected \in ExpectedChoices(issuedPeople) :
        LET res == SqUpdateFormComplete(dbForms, dbResponses, dbForms[f].id, dbForms[f].name,
                                        dbForms[f].google_form_id, dbForms[f].is_active,
                                        expected)
        IN  /\ dbForms' = res.forms
            /\ dbResponses' = res.responses
            /\ SetLast(Report("update_form", [ok |-> res.ok, form |-> dbForms[f].id]))
    /\ UNCHANGED << factory, messenger, syncs, impl, now, issuedPeople, issuedForms, dbPeople, ssVars >>

\* SQLiteDatabase.delete_person
SqDeletePerson ==
    /\ impl = "sqlite"
    /\ \E p \in 1..issuedPeople :
        LET res == SqDeletePersonFrom(dbPeople, p)
        IN  /\ dbPeople' = res.people
            /\ SetLast(Report("delete_person", [ok |-> res.ok, person |-> p]))
    /\ UNCHANGED << factory, messenger, syncs, impl, now, issuedPeople, issuedForms, dbForms, dbResponses, ssVars >>

\* StreamlitDatabase.add_person handed a Person that nothing validated before
SsAddPersonGiven ==
    /\ impl = "session"
    /\ issuedPeople < MaxPeople
    /\ \E inp \in GivenPeople :
        LET res == SsAddPersonTo(ssPeople, NewPerson(issuedPeople + 1, inp.email, inp.psid))
        IN  /\ ssPeople' = res.people
            /\ issuedPeople' = IF res.ok THEN issuedPeople + 1 ELSE issuedPeople
            /\ SetLast(Report("add_person",
                    [ok |-> res.ok, person |-> issuedPeople + 1,
                     name |-> inp.name, email |-> inp.email, psid |-> inp.psid]))
    /\ UNCHANGED << factory, messenger, syncs, impl, now, issuedForms, ssForms, ssResponses, dbVars >>

\* SQLiteDatabase.add_person handed a Person that nothing validated before
SqAddPersonGiven ==
    /\ impl = "sqlite"
    /\ issuedPeople < MaxPeople
    /\ \E inp \in GivenPeople :
        LET res == SqAddPersonTo(dbPeople, NewPerson(issuedPeople + 1, inp.email, inp.psid),
                                 FALSE)
        IN  /\ dbPeople' = res.people
            /\ issuedPeople' = IF res.ok THEN issuedPeople + 1 ELSE issuedPeople
            /\ SetLast(Report("add_person",
                    [ok |-> res.ok, person |-> issuedPeople + 1,
                     name |-> inp.name, email |-> inp.email, psid |-> inp.psid]))
    /\ UNCHANGED << factory, messenger, syncs, impl, now, issuedForms, dbForms, dbResponses, ssVars >>

\* another pass holds the write lock
LockedByOther(w) == \E v \in SyncWorkers \ { w } : syncs[v].locked

\* a write on a connection other than the pass's conn: it fails for sure when
\* the pass's own conn holds the lock, and when another pass holds it the
\* busy timeout may run out
MustFail(w) == syncs[w].locked
MayFail(w) == syncs[w].locked \/ LockedByOther(w)

SyncFrame == UNCHANGED << factory, messenger, impl, now, issuedForms, ssVars >>

\* the pass starts with the App Script's answer for one form
SqSyncBegin ==
    /\ impl = "sqlite"
    /\ \E w \in SyncWorkers, gid \in GoogleIds, answer \in AnswerChoices :
        LET subs == GetFormResponses(answer)
            f == SqGetFormByGoogleId(dbForms, gid)
        IN  /\ syncs[w].pc = "idle"
            /\ syncs' = [syncs EXCEPT ![w] =
                    IF f = 0 THEN [NoSync EXCEPT !.pc = "finish", !.errors = 1]
                    ELSE [NoSync EXCEPT !.pc = IF subs = << >> THEN "finish" ELSE "lookup",
                                        !.f = f, !.subs = subs, !.k = 1,
                                        !.expected = dbForms[f].expected_people_ids]]
    /\ SetLast(Idle)
    /\ UNCHANGED << issuedPeople, dbVars >>
    /\ SyncFrame

\* the person of the submission: among the expected people, then by email
SqSyncLookup ==
    /\ impl = "sqlite"
    /\ \E w \in SyncWorkers :
        LET y == syncs[w]
            email == NormalizeEmail(y.subs[y.k].email)
            inExpected == SqFindExpected(dbPeople, y.expected, email)
            found == IF inExpected # 0 THEN inExpected ELSE SqGetPersonByEmail(dbPeople, email)
        IN  /\ y.pc = "lookup"
            /\ syncs' = [syncs EXCEPT ![w] =
                    IF email = NoText THEN SyncAdvance(y)
                    ELSE IF found # 0
                    THEN [y EXCEPT !.pc = "mark", !.email = email,
                                   !.person = dbPeople[found].id]
                    ELSE [y EXCEPT !.pc = "check", !.email = email, !.unknown = @ + 1]]
    /\ SetLast(Idle)
    /\ UNCHANGED << issuedPeople, dbVars >>
    /\ SyncFrame

\* add_person, its SELECT: an email already there, False
SqSyncAddCheck ==
    /\ impl = "sqlite"
    /\ \E w \in SyncWorkers :
        LET y == syncs[w]
        IN  /\ y.pc = "check"
            /\ syncs' = [syncs EXCEPT ![w] =
                    IF SqGetPersonByEmail(dbPeople, y.email) # 0
                    THEN SyncAdvance([y EXCEPT !.errors = @ + 1])
                    ELSE [y EXCEPT !.pc = "insert"]]
    /\ SetLast(Idle)
    /\ UNCHANGED << issuedPeople, dbVars >>
    /\ SyncFrame

\* add_person, its INSERT and commit
SqSyncAddInsert ==
    /\ impl = "sqlite"
    /\ issuedPeople < MaxPeople
    /\ \E w \in SyncWorkers, timeout \in BOOLEAN :
        LET y == syncs[w]
            res == SqInsertPerson(dbPeople, NewPerson(issuedPeople + 1, y.email, ""), timeout)
        IN  /\ y.pc = "insert"
            /\ MustFail(w) => timeout
            /\ timeout => MayFail(w)
            /\ ~timeout => ~LockedByOther(w)
            /\ dbPeople' = res.people
            /\ issuedPeople' = IF res.ok THEN issuedPeople + 1 ELSE issuedPeople
            /\ syncs' = [syncs EXCEPT ![w] =
                    IF res.ok
                    THEN [y EXCEPT !.pc = "attach", !.created = @ + 1,
                                   !.person = issuedPeople + 1]
                    ELSE SyncAdvance([y EXCEPT !.errors = @ + 1])]
    /\ SetLast(Idle)
    /\ UNCHANGED << dbForms, dbResponses >>
    /\ SyncFrame

\* on conn: UPDATE forms SET expected_people_ids, INSERT INTO responses
SqSyncAttach ==
    /\ impl = "sqlite"
    /\ \E w \in SyncWorkers, timeout \in BOOLEAN :
        LET y == syncs[w]
            row == NewResponse(dbForms[y.f].id, y.person, FALSE, NoTime, NoTime, 0)
        IN  /\ y.pc = "attach"
            /\ timeout => LockedByOther(w)
            /\ ~timeout => ~LockedByOther(w)
            /\ syncs' = [syncs EXCEPT ![w] =
                    IF timeout \/ ~SqUniqueRows(dbResponses \o y.rows \o << row >>)
                    THEN SyncAbort(y)
                    ELSE [y EXCEPT !.pc = "mark", !.locked = TRUE, !.wrote = TRUE,
                                   !.expected = Append(@, y.person),
                                   !.rows = Append(@, row)]]
    /\ SetLast(Idle)
    /\ UNCHANGED << issuedPeople, dbVars >>
    /\ SyncFrame

\* mark_as_responded, on a connection of its own
SqSyncMark ==
    /\ impl = "sqlite"
    /\ \E w \in SyncWorkers, timeout \in BOOLEAN :
        LET y == syncs[w]
            res == SqMarkAsRespondedIn(dbResponses, dbForms[y.f].id, y.person,
                                       SqParseTimestamp(y.subs[y.k].timestamp, now), now,
                                       timeout)
        IN  /\ y.pc = "mark"
            /\ MustFail(w) => timeout
            /\ timeout => MayFail(w)
            /\ ~timeout => ~LockedByOther(w)
            /\ dbResponses' = res.responses
            /\ syncs' = [syncs EXCEPT ![w] =
                    IF res.ok THEN SyncAdvance([y EXCEPT !.updated = @ + 1])
                    ELSE SyncAdvance([y EXCEPT !.errors = @ + 1])]
    /\ SetLast(Idle)
    /\ UNCHANGED << issuedPeople, dbPeople, dbForms >>
    /\ SyncFrame

\* on conn: INSERT OR REPLACE INTO app_metadata, commit; the stats are returned
SqSyncFinish ==
    /\ impl = "sqlite"
    /\ \E w \in SyncWorkers, timeout \in BOOLEAN :
        LET y == syncs[w]
        IN  /\ y.pc = "finish"
            /\ timeout => LockedByOther(w)
            /\ ~timeout => ~LockedByOther(w)
            /\ dbForms' = IF ~timeout /\ y.wrote
                          THEN [dbForms EXCEPT ![y.f].expected_people_ids = y.expected]
                          ELSE dbForms
            /\ dbResponses' = IF timeout THEN dbResponses ELSE dbResponses \o y.rows
            /\ syncs' = [syncs EXCEPT ![w] =
                    IF timeout THEN SyncAbort(y)
                    ELSE [y EXCEPT !.pc = "done", !.wrote = FALSE, !.rows = << >>,
                                   !.locked = FALSE]]
    /\ SetLast(Idle)
    /\ UNCHANGED << issuedPeople, dbPeople >>
    /\ SyncFrame

\* StreamlitDatabase.update_person
SsUpdatePerson ==
    /\ impl = "session"
    /\ \E p \in 1..issuedPeople, inp \in PersonInputs :
        LET res == SsUpdatePersonIn(ssPeople, NewPerson(p, inp.email, inp.psid))
        IN  /\ ssPeople' = res.people
            /\ SetLast(Report("update_person",
                    [ok |-> res.ok, person |-> p, email |-> inp.email, psid |-> inp.psid]))
    /\ UNCHANGED << factory, messenger, syncs, impl, now, issuedPeople, issuedForms, ssForms, ssResponses, dbVars >>

\* show_edit_person_modal: a name and an email or a psid typed in, then update_person
SqUpdatePerson ==
    /\ impl = "sqlite"
    /\ \E i \in 1..Len(dbPeople), inp \in PersonInputs :
        LET res == SqUpdatePersonIn(dbPeople, NewPerson(dbPeople[i].id, inp.email, inp.psid))
        IN  /\ dbPeople' = res.people
            /\ SetLast(Report("update_person",
                    [ok |-> res.ok, person |-> dbPeople[i].id,
                     email |-> inp.email, psid |-> inp.psid]))
    /\ UNCHANGED << factory, messenger, syncs, impl, now, issuedPeople, issuedForms, dbForms, dbResponses, ssVars >>

(* ---- STN-botv3 ---- *)
\* people_ids comes from st.multiselect: no id twice
V3PeopleChoices(issued) ==
    { << >> } \cup { << p >> : p \in 1..issued }
        \cup { pq \in { << p, q >> : p \in 1..issued, q \in 1..issued } : pq[1] # pq[2] }

V3AddPerson ==
    /\ impl = "v3"
    /\ issuedPeople < MaxPeople
    /\ \E inp \in PersonInputs :
        LET res == V3AddPersonTo(dbPeople, NewPerson(issuedPeople + 1, inp.email, inp.psid))
        IN  /\ dbPeople' = res.people
            /\ issuedPeople' = IF res.ok THEN issuedPeople + 1 ELSE issuedPeople
            /\ SetLast(Idle)
    /\ UNCHANGED << factory, messenger, syncs, impl, now, issuedForms, dbForms, dbResponses, ssVars >>

V3AddForm ==
    /\ impl = "v3"
    /\ \E gid \in GoogleIds, people_ids \in V3PeopleChoices(issuedPeople) :
        LET res == V3AddFormTo(dbForms, dbResponses,
                               V3Form(issuedForms + 1, gid, people_ids))
        IN  /\ res.ok => issuedForms < MaxForms
            /\ dbForms' = res.forms
            /\ dbResponses' = res.responses
            /\ issuedForms' = IF res.ok THEN issuedForms + 1 ELSE issuedForms
            /\ SetLast(Report("add_form", [ok |-> res.ok, form |-> issuedForms + 1,
                                           gid |-> gid]))
    /\ UNCHANGED << factory, messenger, syncs, impl, now, issuedPeople, dbPeople, ssVars >>

\* Database.add_form handed a people_ids list that names one person twice
V3AddFormRepeated ==
    /\ impl = "v3"
    /\ \E gid \in GoogleIds, p \in 1..issuedPeople :
        LET res == V3AddFormTo(dbForms, dbResponses,
                               V3Form(issuedForms + 1, gid, << p, p >>))
        IN  /\ res.ok => issuedForms < MaxForms
            /\ dbForms' = res.forms
            /\ dbResponses' = res.responses
            /\ issuedForms' = IF res.ok THEN issuedForms + 1 ELSE issuedForms
            /\ SetLast(Report("add_form", [ok |-> res.ok, form |-> issuedForms + 1,
                                           gid |-> gid]))
    /\ UNCHANGED << factory, messenger, syncs, impl, now, issuedPeople, dbPeople, ssVars >>

\* STNBot.update_form, as the edit page calls it: an existing form, its
\* google_id kept, at least one person selected
V3UpdateForm ==
    /\ impl = "v3"
    /\ \E f \in 1..Len(dbForms), people_ids \in V3PeopleChoices(issuedPeople) \ { << >> } :
        LET res == V3UpdateFormTo(dbForms, dbResponses, dbForms[f].id,
                                  dbForms[f].google_id, people_ids)
        IN  /\ dbForms' = res.forms
            /\ dbResponses' = res.responses
            /\ SetLast(Report("update_form", [ok |-> res.ok, form |-> dbForms[f].id]))
    /\ UNCHANGED << factory, messenger, syncs, impl, now, issuedPeople, issuedForms, dbPeople, ssVars >>

\* Database.delete_person
V3DeletePerson ==
    /\ impl = "v3"
    /\ \E p \in 1..issuedPeople :
        LET res == V3DeletePersonFrom(dbPeople, p)
        IN  /\ dbPeople' = res.people
            /\ SetLast(Report("delete_person", [ok |-> res.ok, person |-> p]))
    /\ UNCHANGED << factory, messenger, syncs, impl, now, issuedPeople, issuedForms, dbForms, dbResponses, ssVars >>

\* Database.mark_responded
V3MarkResponded ==
    /\ impl = "v3"
    /\ \E f \in 1..issuedForms, p \in 1..issuedPeople :
        LET res == V3MarkRespondedIn(dbResponses, f, p)
        IN  /\ dbResponses' = res.responses
            /\ SetLast(Report("mark_as_responded",
                              [ok |-> res.ok, form |-> f, person |-> p]))
    /\ UNCHANGED << factory, messenger, syncs, impl, now, issuedPeople, issuedForms, dbPeople, dbForms, ssVars >>

\* ReminderService.send_reminders (v3)
V3DoSendReminders ==
    /\ impl = "v3"
    /\ \E f \in 1..Len(dbForms) :
       \E outcomes \in [1..Len(V3GetNonResponders(dbPeople, dbResponses, dbForms[f].id))
                            -> Outcomes] :
        LET res == V3SendReminders(dbPeople, dbResponses, dbForms[f].id, outcomes, now)
        IN  /\ dbResponses' = res.responses
            /\ SetLast(Report("send_reminders",
                   [form |-> dbForms[f].id, msgs |-> res.msgs, recorded |-> res.recorded]))
    /\ UNCHANGED << factory, messenger, syncs, impl, now, issuedPeople, issuedForms, dbPeople, dbForms, ssVars >>

\* StreamlitDatabase.get_health_check
SsHealthCheck ==
    /\ impl = "session"
    /\ \E rep \in { GetHealthCheck(SsStore, 0) } :
        /\ ssPeople' = rep.store.people
        /\ ssForms' = rep.store.forms
        /\ ssResponses' = rep.store.responses
        /\ SetLast(Report("health_check", [status |-> rep.status, orphaned |-> rep.orphaned]))
    /\ UNCHANGED << factory, messenger, syncs, impl, now, issuedPeople, issuedForms, dbVars >>

\* SQLiteDatabase.get_health_check; the poles of the forms are the caller's
SqHealthCheck ==
    /\ impl = "sqlite"
    /\ \E withoutPole \in 0..Len(dbForms) :
        \E rep \in { GetHealthCheck(Store(dbPeople, dbForms, dbResponses, issuedPeople),
                                     withoutPole) } :
            /\ dbPeople' = rep.store.people
            /\ dbForms' = rep.store.forms
            /\ dbResponses' = rep.store.responses
            /\ SetLast(Report("health_check",
                              [status |-> rep.status, orphaned |-> rep.orphaned]))
    /\ UNCHANGED << factory, messenger, syncs, impl, now, issuedPeople, issuedForms, ssVars >>

(* ---- ServiceFactory ---- *)
\* ServiceFactory.get_service
DoGetService ==
    /\ \E name \in ServiceNames, required \in BOOLEAN, settings \in SettingsChoices,
          ctorRaises \in BOOLEAN :
        \E res \in { GetService(factory, name, required, settings, ctorRaises) } :
            /\ res.constructed => factory.issued < MaxBuilds
            /\ factory' = res.f
            /\ SetLast(Report("get_service",
                    [service |-> name, required |-> required, instance |-> res.instance,
                     raised |-> res.raised, constructed |-> res.constructed]))
    /\ UNCHANGED << messenger, syncs, impl, now, issuedPeople, issuedForms, ssVars, dbVars >>

\* ServiceFactory.reset
DoFactoryReset ==
    /\ factory' = FactoryReset(factory)
    /\ SetLast(Report("reset", << >>))
    /\ UNCHANGED << messenger, syncs, impl, now, issuedPeople, issuedForms, ssVars, dbVars >>

(* --------------------------- specifications --------------------------- *)
\* the StreamlitDatabase API
NextSession ==
    \/ Tick
    \/ SsAddPerson
    \/ SsAddForm
    \/ SsAddOrUpdateResponse
    \/ SsMarkAsResponded
    \/ SsRecordReminderSent
    \/ SsDeletePerson

InitSession == Init /\ impl = "session"

SpecSession == InitSession /\ [][NextSession]_vars

\* ReminderService (v2) over the StreamlitDatabase
NextReminders ==
    \/ Tick
    \/ SsAddPerson
    \/ SsAddForm
    \/ SsAddOrUpdateResponse
    \/ DoSendRemindersForForm
    \/ DoSendRemindersForAllForms

InitReminders == Init /\ impl = "reminders"

SpecReminders == InitReminders /\ [][NextReminders]_vars

\* the SQLiteDatabase API and the form edit of the application
NextSqlite ==
    \/ Tick
    \/ SqAddPerson
    \/ SqAddForm
    \/ SqMarkAsResponded
    \/ SqRecordReminderSent
    \/ SqSync
    \/ SqUpdateForm

InitSqlite == Init /\ impl = "sqlite"

SpecSqlite == InitSqlite /\ [][NextSqlite]_vars

\* STN-botv3
NextV3 ==
    \/ Tick
    \/ V3AddPerson
    \/ V3AddForm
    \/ V3MarkResponded
    \/ V3DoSendReminders

InitV3 == Init /\ impl = "v3"

SpecV3 == InitV3 /\ [][NextV3]_vars

\* the SQLiteDatabase API without the sync and with the deletion of people
NextSqliteStore ==
    \/ Tick
    \/ SqAddPerson
    \/ SqAddForm
    \/ SqMarkAsResponded
    \/ SqRecordReminderSent
    \/ SqUpdateForm
    \/ SqDeletePerson

SpecSqliteStore == InitSqlite /\ [][NextSqliteStore]_vars

\* the Database of STN-botv3 with the form edit and the deletion of people
NextV3Store ==
    \/ Tick
    \/ V3AddPerson
    \/ V3AddForm
    \/ V3AddFormRepeated
    \/ V3UpdateForm
    \/ V3DeletePerson
    \/ V3MarkResponded
    \/ V3DoSendReminders

SpecV3Store == InitV3 /\ [][NextV3Store]_vars

\* creating and editing forms in the three stores
NextForms ==
    \/ SsAddPerson
    \/ SsAddForm
    \/ SsAddOrUpdateResponse
    \/ SqAddPerson
    \/ SqAddForm
    \/ SqUpdateForm
    \/ V3AddPerson
    \/ V3AddForm
    \/ V3UpdateForm

InitForms == Init /\ impl \in { "session", "sqlite", "v3" }

SpecForms == InitForms /\ [][NextForms]_vars

\* the People store of v2: add, edit, delete
NextPeople ==
    \/ SsAddPerson
    \/ SsAddPersonGiven
    \/ SsUpdatePerson
    \/ SsDeletePerson
    \/ SqAddPerson
    \/ SqAddPersonGiven
    \/ SqUpdatePerson
    \/ SqDeletePerson

InitPeople == Init /\ impl \in { "session", "sqlite" }

SpecPeople == InitPeople /\ [][NextPeople]_vars

\* two sync passes on one SQLite file
NextRace ==
    \/ SqAddForm
    \/ SqSyncBegin
    \/ SqSyncLookup
    \/ SqSyncAddCheck
    \/ SqSyncAddInsert
    \/ SqSyncAttach
    \/ SqSyncMark
    \/ SqSyncFinish

InitRace == Init /\ impl = "sqlite"

SpecRace == InitRace /\ [][NextRace]_vars

\* the preview of the reminder service over a store that people, forms,
\* responses and recorded reminders fill
NextPreview ==
    \/ Tick
    \/ SsAddPerson
    \/ SsAddForm
    \/ SsAddOrUpdateResponse
    \/ SsMarkAsResponded
    \/ SsRecordReminderSent
    \/ DoPreviewReminders

InitPreview == Init /\ impl = "session"

SpecPreview == InitPreview /\ [][NextPreview]_vars

\* the preview over a store with two forms
NextPreviewAll ==
    \/ SsAddPerson
    \/ SsAddForm
    \/ SsAddFormSameName
    \/ SsAddOrUpdateResponse
    \/ DoPreviewReminders

InitPreviewAll == Init /\ impl = "session"

SpecPreviewAll == InitPreviewAll /\ [][NextPreviewAll]_vars

\* the MessengerService sending in bulk
NextBulk ==
    \/ MessengerIdle
    \/ DoSendBulkMessages

InitBulk == Init /\ impl = "reminders"

SpecBulk == InitBulk /\ [][NextBulk]_vars

\* the MessengerService sending message after message
NextHistory ==
    \/ DoSendMessage

InitHistory == Init /\ impl = "reminders"

SpecHistory == InitHistory /\ [][NextHistory]_vars

\* both stores with the deletion of people and the health check
NextHealth ==
    \/ SsAddPerson
    \/ SsAddForm
    \/ SsAddOrUpdateResponse
    \/ SsDeletePerson
    \/ SsHealthCheck
    \/ SqAddPerson
    \/ SqAddForm
    \/ SqDeletePerson
    \/ SqHealthCheck

InitHealth == Init /\ impl \in { "session", "sqlite" }

SpecHealth == InitHealth /\ [][NextHealth]_vars

\* the service factory
NextFactory ==
    \/ DoGetService
    \/ DoFactoryReset

InitFactory == Init /\ impl = "reminders"

SpecFactory == InitFactory /\ [][NextFactory]_vars

\* the application: people and forms are added through db, reminders are
\* previewed and sent through the reminder service
NextApp ==
    \/ SqAddPerson
    \/ SqAddForm
    \/ DoPreviewReminders
    \/ DoSendRemindersForForm

InitApp == Init /\ impl = "app"

SpecApp == InitApp /\ [][NextApp]_vars

\* the SQLite store under add_form, sync, the form edit and delete_person
NextSqliteLife ==
    \/ SqAddPerson
    \/ SqAddForm
    \/ SqSync
    \/ SqUpdateForm
    \/ SqDeletePerson

SpecSqliteLife == InitSqlite /\ [][NextSqliteLife]_vars

\* every implementation
Next ==
    \/ DoGetService
    \/ DoFactoryReset
    \/ SsHealthCheck
    \/ SqHealthCheck
    \/ Tick
    \/ SsAddPerson
    \/ SsAddForm
    \/ SsAddOrUpdateResponse
    \/ SsMarkAsResponded
    \/ SsRecordReminderSent
    \/ DoSendRemindersForForm
    \/ DoSendRemindersForAllForms
    \/ SqAddPerson
    \/ SqAddForm
    \/ SqMarkAsResponded
    \/ SqRecordReminderSent
    \/ SqSync
    \/ SqUpdateForm
    \/ V3AddPerson
    \/ V3AddForm
    \/ V3MarkResponded
    \/ V3DoSendReminders
    \/ SsDeletePerson
    \/ SqDeletePerson
    \/ V3AddFormRepeated
    \/ V3UpdateForm
    \/ V3DeletePerson
    \/ SsAddPersonGiven
    \/ SqAddPersonGiven
    \/ SsUpdatePerson
    \/ SqUpdatePerson
    \/ SqSyncBegin
    \/ SqSyncLookup
    \/ SqSyncAddCheck
    \/ SqSyncAddInsert
    \/ SqSyncAttach
    \/ SqSyncMark
    \/ SqSyncFinish
    \/ DoPreviewReminders
    \/ SsAddFormSameName
    \/ MessengerIdle
    \/ DoSendBulkMessages
    \/ DoSendMessage

Spec == Init /\ [][Next]_vars

\* reminder dispatch: ReminderService of v2 and of v3
NextDispatch ==
    \/ Tick
    \/ SsAddPerson
    \/ SsAddForm
    \/ SsAddOrUpdateResponse
    \/ DoSendRemindersForForm
    \/ DoSendRemindersForAllForms
    \/ V3AddPerson
    \/ V3AddForm
    \/ V3MarkResponded
    \/ V3DoSendReminders

InitDispatch == Init /\ impl \in { "reminders", "v3" }

SpecDispatch == InitDispatch /\ [][NextDispatch]_vars

(* ------------------------------ properties ---------------------------- *)
\* the Response rows the running ReminderService reads and writes
ReminderRows == IF impl = "v3" THEN dbResponses ELSE ssResponses

\* the reminder bookkeeping of the rows of (f, p): last_reminder and, where the
\* table has it, reminder_count
ReminderState(R, f, p) ==
    { << R[i].last_reminder,
         IF "reminder_count" \in DOMAIN R[i] THEN R[i].reminder_count ELSE 0 >> :
        i \in { j \in 1..Len(R) : R[j].form_id = f /\ R[j].person_id = p } }

IsSend(report) ==
    report.op \in { "send_reminders_for_form", "send_reminders_for_all_forms",
                    "send_reminders" }

SucceededPairs(report) ==
    { << report.msgs[k].form, report.msgs[k].person >> :
        k \in { j \in 1..Len(report.msgs) : report.msgs[j].success } }

FailedPairs(report) ==
    { << report.msgs[k].form, report.msgs[k].person >> :
        k \in { j \in 1..Len(report.msgs) : ~report.msgs[j].success } }

\* C1: dispatch-then-record.  A send step leaves last_reminder and
\* reminder_count of every pair whose message failed as they were, and records
\* a reminder only for pairs whose own message succeeded.
C1_DispatchThenRecord ==
    [][IsSend(last') =>
        /\ \A pair \in FailedPairs(last') :
              ReminderState(ReminderRows', pair[1], pair[2])
                  = ReminderState(ReminderRows, pair[1], pair[2])
        /\ last'.recorded \subseteq SucceededPairs(last')]_vars

\* a batch of v2 in which one send failed and another succeeded
C1_Witness ==
    /\ impl = "reminders"
    /\ IsSend(last)
    /\ FailedPairs(last) # {}
    /\ last.recorded # {}
    /\ last.recorded = SucceededPairs(last)

\* the rows a cooldown applies to: pending, reminded before, person with a handle
Reminded(P, R) ==
    { ij \in (1..Len(P)) \X (1..Len(R)) :
        /\ R[ij[2]].person_id = P[ij[1]].id
        /\ ~R[ij[2]].has_responded
        /\ P[ij[1]].psid # ""
        /\ R[ij[2]].last_reminder # NoTime }

\* C2: cooldown law.  A pending pair with a handle whose last reminder was X
\* ago is included by SQLiteDatabase.get_people_needing_reminders and by
\* Response.can_send_reminder if and only if X >= cooldown.
C2_CooldownLaw ==
    \A cooldown \in Cooldowns : \A ij \in Reminded(dbPeople, dbResponses) :
        LET r == dbResponses[ij[2]]
            X == now - r.last_reminder
        IN  /\ ij \in SqGetPeopleNeedingReminders(dbPeople, dbResponses, r.form_id,
                                                  cooldown, now)
                <=> X >= cooldown
            /\ CanSendReminder(r, cooldown, now) <=> X >= cooldown

RespondedPairs(R) ==
    { << R[i].form_id, R[i].person_id >> : i \in { j \in 1..Len(R) : R[j].has_responded } }
PendingPairs(R) ==
    { << R[i].form_id, R[i].person_id >> : i \in { j \in 1..Len(R) : ~R[j].has_responded } }

\* C3: RESPONDED is terminal.  No step takes a pair that has a responded row
\* to a state where it has a row that is not responded.
C3_RespondedTerminal ==
    [][/\ RespondedPairs(ssResponses) \cap PendingPairs(ssResponses') = {}
       /\ RespondedPairs(dbResponses) \cap PendingPairs(dbResponses') = {}]_vars

\* C4: sync-first guard.  A send with sync_first whose sync step returned
\* status error sends nothing, records nothing and reports sync_failed; without
\* sync_first a send never reports sync_failed.
C4_SyncFirstGuard ==
    /\ (IsSend(last) /\ last.syncFirst /\ last.syncStatus = "error")
          => (last.msgs = << >> /\ last.recorded = {} /\ last.status = "sync_failed")
    /\ (IsSend(last) /\ ~last.syncFirst) => last.status # "sync_failed"

\* C5: a send with sync_first during which every fetch from the App Script
\* failed sends no message and reports sync_failed.
C5_FetchFailureAborts ==
    (IsSend(last) /\ last.syncFirst /\ last.fetchFailed)
        => (last.msgs = << >> /\ last.status = "sync_failed")

\* the pairs the next send_reminders of v3 would write to
V3Addressed(P, R, f) ==
    LET non == V3GetNonResponders(P, R, f)
    IN  { << f, P[non[k][1]].id >> : k \in { j \in 1..Len(non) : P[non[j][1]].psid # "" } }

\* C6: after a successful send to a pending pair with reminder_count n the row
\* has last_reminder = the time of recording and (where the table has the
\* column) reminder_count = n + 1, and while the cooldown has not elapsed the
\* pair is not among those the next send addresses.
C6_CountedAndCoolingDown ==
    [][IsSend(last') =>
        \A pair \in SucceededPairs(last') :
            /\ ReminderState(ReminderRows', pair[1], pair[2])
                   = { << now, IF "reminder_count" \in DOMAIN ReminderRows[1]
                                THEN st[2] + 1 ELSE 0 >> :
                         st \in ReminderState(ReminderRows, pair[1], pair[2]) }
            /\ impl = "v3" => pair \notin V3Addressed(dbPeople', dbResponses', pair[1])]_vars

\* C7: the reminder-eligible query of either store returns only pairs that are
\* pending, whose person has a psid, and that were never reminded or whose
\* cooldown has elapsed.
C7_EligibleOnly ==
    \A cooldown \in Cooldowns :
        /\ \A f \in 1..Len(ssForms) :
            LET got == SsGetPeopleNeedingReminders(ssPeople, ssResponses, ssForms[f].id,
                                                   cooldown, now)
            IN  \A k \in 1..Len(got) :
                    /\ ~ssResponses[got[k][2]].has_responded
                    /\ ssPeople[got[k][1]].psid # ""
                    /\ \/ ssResponses[got[k][2]].last_reminder = NoTime
                       \/ now - ssResponses[got[k][2]].last_reminder >= cooldown
        /\ \A f \in 1..Len(dbForms) :
            \A ij \in SqGetPeopleNeedingReminders(dbPeople, dbResponses, dbForms[f].id,
                                                  cooldown, now) :
                /\ ~dbResponses[ij[2]].has_responded
                /\ dbPeople[ij[1]].psid # ""
                /\ \/ dbResponses[ij[2]].last_reminder = NoTime
                   \/ now - dbResponses[ij[2]].last_reminder >= cooldown

\* the people of P whose normalized email is email
PeopleWithEmail(P, email) ==
    { i \in 1..Len(P) : P[i].email # NoText /\ NormalizeEmail(P[i].email) = email }

\* the submissions of a sync report that carry an email
WithEmail(report) == { k \in 1..Len(report.subs) : report.subs[k].email # NoText }

IsFormSync(report) == report.op = "sync" /\ report.form # 0

\* C8: after the sync of a form, a submission whose normalized email is that
\* of a Person who existed before has a Response of that form for such a
\* person with has_responded = true and response_date = the submission's
\* timestamp (the time of the sync when it is absent or does not parse), and
\* that person is not among the form's non-responders.
C8_MatchedAreMarked ==
    [][IsFormSync(last') =>
        \A k \in WithEmail(last') :
            PeopleWithEmail(dbPeople, last'.subs[k].email) # {} =>
                \E i \in PeopleWithEmail(dbPeople, last'.subs[k].email) :
                    /\ \E j \in SqRowsOf(dbResponses', last'.form, dbPeople[i].id) :
                          /\ dbResponses'[j].has_responded
                          /\ dbResponses'[j].response_date
                                 = SqParseTimestamp(last'.subs[k].timestamp, now)
                    /\ \A ij \in SqGetNonRespondersForForm(dbPeople', dbResponses', last'.form) :
                          dbPeople'[ij[1]].id # dbPeople[i].id]_vars

\* C9: after the sync of a form, a submission with an email that matched no
\* Person has exactly one new Person with that email, whose id is in the
\* form's expected set and who has a Response of the form with has_responded =
\* true; a pass over one such submission counts created = 1, updated = 1 and
\* errors = 0.
C9_UnmatchedAreCreatedAndMarked ==
    [][IsFormSync(last') =>
        \A k \in WithEmail(last') :
            PeopleWithEmail(dbPeople, last'.subs[k].email) = {} =>
                /\ Cardinality(PeopleWithEmail(dbPeople', last'.subs[k].email)) = 1
                /\ \A i \in PeopleWithEmail(dbPeople', last'.subs[k].email) :
                      /\ dbPeople'[i].id \in
                             Range(dbForms'[SqGetFormById(dbForms', last'.form)].expected_people_ids)
                      /\ Cardinality(SqRowsOf(dbResponses', last'.form, dbPeople'[i].id)) = 1
                      /\ \A j \in SqRowsOf(dbResponses', last'.form, dbPeople'[i].id) :
                            dbResponses'[j].has_responded
                /\ Len(last'.subs) = 1 =>
                      (last'.created = 1 /\ last'.updated = 1 /\ last'.errors = 0)]_vars

\* the Response rows of the store the behaviour runs on
StoreRows == IF impl \in { "sqlite", "v3" } THEN dbResponses ELSE ssResponses

\* C10: mark_as_responded is an upsert.  After the call the pair has exactly
\* one row, it has has_responded = true and a response_date, and the call
\* reported success - whether or not the pair had a row before.
C10_MarkIsUpsert ==
    last.op = "mark_as_responded" =>
        /\ last.ok
        /\ \E i \in 1..Len(StoreRows) :
              /\ StoreRows[i].form_id = last.form /\ StoreRows[i].person_id = last.person
              /\ StoreRows[i].has_responded
              /\ "response_date" \in DOMAIN StoreRows[i] => StoreRows[i].response_date # NoTime
              /\ \A j \in 1..Len(StoreRows) :
                    (StoreRows[j].form_id = last.form /\ StoreRows[j].person_id = last.person)
                        => j = i

\* the rows of R for the pair (f, p)
PairRows(R, f, p) == SelectSeq(R, LAMBDA r : r.form_id = f /\ r.person_id = p)

\* R with every response_date blanked: what two stores agree on when they
\* differ in response_date only
SansResponseDate(R) == [i \in 1..Len(R) |-> [R[i] EXCEPT !.response_date = NoTime]]

\* C11: mark_as_responded is idempotent.  Every call leaves exactly one row for
\* the pair, with has_responded = true and with the reminder_count and
\* last_reminder the pair had before the call; a call that directly follows a
\* call for the same pair changes nothing but possibly response_date.
C11_MarkTwiceIdempotent ==
    [][ last'.op = "mark_as_responded" =>
          LET before == PairRows(StoreRows, last'.form, last'.person)
              after  == PairRows(StoreRows', last'.form, last'.person)
          IN  /\ Len(after) = 1
              /\ after[1].has_responded
              /\ before # << >> =>
                    /\ after[1].reminder_count = before[1].reminder_count
                    /\ after[1].last_reminder = before[1].last_reminder
              /\ (last.op = "mark_as_responded" /\ last.form = last'.form
                                                /\ last.person = last'.person)
                    => SansResponseDate(StoreRows') = SansResponseDate(StoreRows) ]_vars

\* the same for a pair that has a row when the call is made
C11_MarkTwiceOnExistingRow ==
    [][ (last'.op = "mark_as_responded"
            /\ PairRows(StoreRows, last'.form, last'.person) # << >>) =>
          LET before == PairRows(StoreRows, last'.form, last'.person)
              after  == PairRows(StoreRows', last'.form, last'.person)
          IN  /\ Len(after) = 1
              /\ after[1].has_responded
              /\ after[1].reminder_count = before[1].reminder_count
              /\ after[1].last_reminder = before[1].last_reminder
              /\ (last.op = "mark_as_responded" /\ last.form = last'.form
                                                /\ last.person = last'.person)
                    => SansResponseDate(StoreRows') = SansResponseDate(StoreRows) ]_vars

\* the Response rows of either store
AllRows == ssResponses \o dbResponses

\* C12: in every reachable state there is at most one Response row per
\* (form_id, person_id) pair.
C12_OneRowPerPair ==
    \A i, j \in 1..Len(AllRows) :
        (AllRows[i].form_id = AllRows[j].form_id
            /\ AllRows[i].person_id = AllRows[j].person_id) => i = j

\* the external id and the expected people of a row of the table forms (v2, v3)
FormGid(form) == IF "google_id" \in DOMAIN form THEN form.google_id ELSE form.google_form_id
FormPeople(form) ==
    IF "people_ids" \in DOMAIN form THEN form.people_ids ELSE form.expected_people_ids

\* the rows of R that belong to form f
FormRows(R, f) == SelectSeq(R, LAMBDA r : r.form_id = f)

\* a row as add_form creates it
IsFreshRow(r) ==
    /\ ~r.has_responded
    /\ r.last_reminder = NoTime
    /\ "reminder_count" \in DOMAIN r => r.reminder_count = 0

\* an add_form step of the SQLite stores whose external id no form has yet
IsNewFormAdd ==
    /\ last'.op = "add_form"
    /\ \A i \in 1..Len(dbForms) : FormGid(dbForms[i]) # last'.gid

\* C13: add_form with a list of expected person ids, repeated ids included,
\* succeeds and creates as many Response rows for the new form as there are
\* distinct ids in the list, each pending, never reminded.
C13_RowsPerDistinctId ==
    [][ IsNewFormAdd =>
          /\ last'.ok
          /\ \E i \in 1..Len(dbForms') :
                /\ dbForms'[i].id = last'.form
                /\ Len(FormRows(dbResponses', last'.form))
                      = Cardinality(Range(FormPeople(dbForms'[i])))
          /\ \A k \in 1..Len(FormRows(dbResponses', last'.form)) :
                IsFreshRow(FormRows(dbResponses', last'.form)[k]) ]_vars

\* the forms of the store the behaviour runs on
StoreForms == IF impl \in { "sqlite", "v3" } THEN dbForms ELSE ssForms

\* C14: add_form with a google_form_id that a form of the store already has
\* reports failure and changes nothing: no form is added or modified and no
\* Response row is created.
C14_DuplicateExternalIdRejected ==
    [][ (last'.op = "add_form"
            /\ \E i \in 1..Len(StoreForms) : FormGid(StoreForms[i]) = last'.gid) =>
          /\ ~last'.ok
          /\ ssVars' = ssVars
          /\ dbVars' = dbVars
          /\ issuedForms' = issuedForms ]_vars

\* an add_form was refused because the one form of the store has its google id
C14_Witness ==
    /\ last.op = "add_form"
    /\ ~last.ok
    /\ Len(StoreForms) = 1
    /\ FormGid(StoreForms[1]) = last.gid
    /\ StoreForms[1].id # last.form

\* the ids of the people get_non_responders_for_form lists for form f
NonResponderIds(f) ==
    IF impl = "sqlite"
    THEN { dbPeople[ij[1]].id : ij \in SqGetNonRespondersForForm(dbPeople, dbResponses, f) }
    ELSE IF impl = "v3"
    THEN LET non == V3GetNonResponders(dbPeople, dbResponses, f)
         IN  { dbPeople[non[k][1]].id : k \in 1..Len(non) }
    ELSE LET non == SsGetNonRespondersForForm(ssPeople, ssResponses, f)
         IN  { ssPeople[non[k][1]].id : k \in 1..Len(non) }

\* C15: delete cascade.  After delete_person(p) reports success no Response
\* row of p is left, no form lists p among its non-responders, and the rows of
\* every other person are as they were.
C15_DeleteCascades ==
    [][ (last'.op = "delete_person" /\ last'.ok) =>
          /\ \A i \in 1..Len(StoreRows') : StoreRows'[i].person_id # last'.person
          /\ \A f \in FormIds : last'.person \notin NonResponderIds(f)'
          /\ SelectSeq(StoreRows', LAMBDA r : r.person_id # last'.person)
                = SelectSeq(StoreRows, LAMBDA r : r.person_id # last'.person) ]_vars

(* ------------------------------- C16 --------------------------------- *)
\* the People store of the implementation that runs
StorePeople == ssPeople \o dbPeople

\* C16: a Person is valid exactly when its email or its psid is not empty, and
\* add_person handed a Person with neither returns False and leaves the People
\* store as it was
C16_InvalidPersonRejected ==
    [][ last'.op = "add_person" =>
          /\ PersonIsValid(last'.name, last'.email, last'.psid)
                <=> (last'.email # NoText \/ last'.psid # "")
          /\ (last'.email = NoText /\ last'.psid = "") =>
                (~last'.ok /\ StorePeople' = StorePeople) ]_vars

(* ------------------------------- C17 --------------------------------- *)
\* C17: no two people share an email (lower case, trimmed, not empty) and no
\* two people share a psid (not empty)
C17_PeopleUnique ==
    \A i, j \in 1..Len(StorePeople) :
        i # j =>
          /\ NormalizeEmail(StorePeople[i].email) # NoText =>
                NormalizeEmail(StorePeople[i].email) # NormalizeEmail(StorePeople[j].email)
          /\ StorePeople[i].psid # "" => StorePeople[i].psid # StorePeople[j].psid

(* ------------------------------- C18 --------------------------------- *)
\* the people of the table whose email is email
SqPeopleWithEmail(email) ==
    { i \in 1..Len(dbPeople) : NormalizeEmail(dbPeople[i].email) = email }

\* C18: while two sync passes interleave on the SQLite file, an email that
\* a pass did not find never has two people, no (form, person) pair has
\* two rows, and a pass that is over has counted an error for every person it
\* set out to create and did not create
C18_RaceSafetyNet ==
    /\ \A w \in SyncWorkers :
          syncs[w].unknown > 0 => Cardinality(SqPeopleWithEmail(syncs[w].email)) <= 1
    /\ SqUniqueRows(dbResponses)
    /\ \A w \in SyncWorkers :
          syncs[w].pc = "done" => syncs[w].errors >= syncs[w].unknown - syncs[w].created

\* both passes looked for the same unknown email; one created the person, the
\* other counted the failure
C18_Witness ==
    /\ \A w \in SyncWorkers : syncs[w].pc = "done" /\ syncs[w].unknown = 1
    /\ syncs[1].email = syncs[2].email
    /\ syncs[1].created = 1
    /\ syncs[2].created = 0 /\ syncs[2].errors >= 1
    /\ Cardinality(SqPeopleWithEmail(syncs[1].email)) = 1

(* ------------------------------- C19 --------------------------------- *)
\* the expected people of form f in the table F, as a set
ExpectedSet(F, f) ==
    UNION { Range(FormPeople(F[i])) : i \in { j \in 1..Len(F) : F[j].id = f } }

\* the rows of the pair (f, p), as records
PairRecords(R, f, p) ==
    { R[i] : i \in { j \in 1..Len(R) : R[j].form_id = f /\ R[j].person_id = p } }

\* C19: after a form's expected people are edited, a person of the old and of
\* the new set keeps the Response it had, a person of the new set only has a
\* fresh row, a person of the old set only has no row, and the rows of the other
\* forms are as they were
C19_EditReconcilesRows ==
    [][ (last'.op = "update_form" /\ last'.ok) =>
          LET f == last'.form
              old == ExpectedSet(dbForms, f)
              new == ExpectedSet(dbForms', f)
          IN  /\ \A p \in old \cap new :
                    PairRecords(dbResponses, f, p) # {} =>
                        PairRecords(dbResponses', f, p) = PairRecords(dbResponses, f, p)
              /\ \A p \in new \ old :
                    /\ PairRecords(dbResponses', f, p) # {}
                    /\ PairRecords(dbResponses, f, p) = {} =>
                          \A r \in PairRecords(dbResponses', f, p) : IsFreshRow(r)
              /\ \A p \in old \ new : PairRecords(dbResponses', f, p) = {}
              /\ SelectSeq(dbResponses', LAMBDA r : r.form_id # f)
                    = SelectSeq(dbResponses, LAMBDA r : r.form_id # f) ]_vars

ActiveForms == { i \in 1..Len(ssForms) : ssForms[i].is_active }

RECURSIVE SumEligible(_, _)
\* the eligible pairs of the forms at the indices idxs, counted form by form
SumEligible(idxs, cooldown) ==
    IF idxs = {} THEN 0
    ELSE LET i == CHOOSE j \in idxs : TRUE
         IN  Cardinality(PreviewEligible(SsStore, ssForms[i].id, cooldown, now))
                + SumEligible(idxs \ { i }, cooldown)

\* C21: with form_id omitted the preview has one entry per active form, two
\* forms of one name included, and total_reminders is the sum of the eligible
\* pairs of every active form; inactive forms add nothing
C21_PreviewAggregatesActiveForms ==
    (last.op = "preview_reminders" /\ last.form = 0 /\ last.status = "success") =>
        /\ last.entries = Cardinality(ActiveForms)
        /\ last.total = SumEligible(ActiveForms, last.cooldown)

(* ------------------------------- C22 --------------------------------- *)
\* C22: send_bulk_messages sends the messages one after another in the order
\* of its input, and a send starts no sooner than rate_limit_delay after the
\* end of the send before it, whether that one succeeded or failed
C22_BulkOrderAndDelay ==
    /\ Len(messenger.results) = Len(messenger.input)
    /\ \A k \in 1..Len(messenger.results) :
          messenger.results[k].psid = messenger.input[k]
    /\ \A k \in 1..(Len(messenger.results) - 1) :
          /\ messenger.results[k].end <= messenger.results[k + 1].start
          /\ messenger.results[k + 1].start - messenger.results[k].end >= RateLimitDelay

(* ------------------------------- C30 --------------------------------- *)
\* the history of browser session u
HistoryOf(M, u) == M.history[u].entries

\* C30: the history of the session that sends never holds more than 1000
\* entries; a send, however it ends, appends exactly one entry; what a
\* truncation drops are the oldest entries, and the entries kept stay in their
\* order
C30_HistoryBoundedAndOrdered ==
    [][ messenger'.flip # messenger.flip =>
          LET H == HistoryOf(messenger, messenger'.session)
              K == HistoryOf(messenger', messenger'.session)
              kept == Len(K) - 1
          IN  /\ Len(K) <= HistoryCap
              /\ Len(K) >= 1
              /\ \A i \in 1..kept : K[i] # K[Len(K)]
              /\ kept <= Len(H)
              /\ SubSeq(K, 1, kept) = SubSeq(H, Len(H) - kept + 1, Len(H))
              /\ Len(H) < HistoryCap => kept = Len(H) ]_vars

\* the same, for the sends of the session that constructed the service
C30_InConstructingSession ==
    [][ (messenger'.flip # messenger.flip /\ messenger'.session = 1) =>
          LET H == HistoryOf(messenger, 1)
              K == HistoryOf(messenger', 1)
              kept == Len(K) - 1
          IN  /\ Len(K) <= HistoryCap
              /\ Len(K) >= 1
              /\ \A i \in 1..kept : K[i] # K[Len(K)]
              /\ kept <= Len(H)
              /\ SubSeq(K, 1, kept) = SubSeq(H, Len(H) - kept + 1, Len(H))
              /\ Len(H) < HistoryCap => kept = Len(H) ]_vars


(* ------------------------------- C23 --------------------------------- *)
\* C23: a sync pass that is over has reached every submission of the answer
\* it was given: a failed person creation or response write costs one error
\* and the loop goes on with the next submission
C23_SyncBestEffort ==
    \A w \in SyncWorkers :
        (syncs[w].pc = "done" /\ syncs[w].f # 0) => syncs[w].k >= Len(syncs[w].subs)


(* ------------------------------- C24 --------------------------------- *)
\* the rows of the store that runs whose person or whose form is not there
OrphanRows ==
    { i \in 1..Len(StoreRows) :
        \/ \A k \in 1..Len(StorePeople) : StorePeople[k].id # StoreRows[i].person_id
        \/ \A k \in 1..Len(ssForms \o dbForms) :
              (ssForms \o dbForms)[k].id # StoreRows[i].form_id }

\* C24: get_health_check reports the number of rows whose person or form
\* does not exist, a status that is not healthy when there is one, and leaves
\* people, forms and rows as they were
C24_HealthCheckDetectsOrphans ==
    [][ last'.op = "health_check" =>
          /\ last'.orphaned = Cardinality(OrphanRows)
          /\ Cardinality(OrphanRows) > 0 => last'.status # "healthy"
          /\ UNCHANGED << ssVars, dbVars >> ]_vars

\* a health check has counted an orphan row
C24_Witness ==
    last.op = "health_check" /\ last.orphaned > 0 /\ last.status = "warning"


(* ------------------------------- C25 --------------------------------- *)
\* the instances the factory holds
HeldInstances(F) == { F.instances[n] : n \in ServiceNames } \ { 0 }

\* C25: get_service with required = False never raises.  A name that has an
\* instance gets that instance, and it stays; a name that failed gets None
\* (the exception if required) with no constructor call, until reset; a
\* name that has neither gets a new instance, or None (the exception if
\* required) and the failure is kept
C25_FactoryContract ==
    [][ last'.op = "get_service" =>
          LET n == last'.service
          IN  /\ ~last'.required => ~last'.raised
              /\ factory.instances[n] # 0 =>
                    /\ last'.instance = factory.instances[n]
                    /\ ~last'.raised /\ ~last'.constructed
                    /\ factory' = factory
              /\ (factory.instances[n] = 0 /\ factory.errors[n] # "") =>
                    /\ last'.instance = 0
                    /\ last'.raised = last'.required
                    /\ ~last'.constructed
                    /\ factory' = factory
              /\ (factory.instances[n] = 0 /\ factory.errors[n] = "") =>
                    \/ /\ last'.instance # 0 /\ last'.constructed /\ ~last'.raised
                       /\ last'.instance \notin HeldInstances(factory)
                       /\ factory'.instances[n] = last'.instance
                    \/ /\ last'.instance = 0 /\ last'.raised = last'.required
                       /\ factory'.instances[n] = 0
                       /\ factory'.errors[n] # "" ]_vars

\* a later call for a name that failed (the message is the except's, so the
\* failure is not this call's): None, no exception, no constructor call
C25_Witness ==
    /\ last.op = "get_service" /\ ~last.required
    /\ last.instance = 0 /\ ~last.raised /\ ~last.constructed
    /\ factory.errors[last.service] = "init"
    /\ factory.issued > 0


(* ------------------------------- C26 --------------------------------- *)
\* C26: in the application the reminder service reads the store that db
\* writes: a preview of form f finds the form exactly when db holds it
C26_ServiceReadsAppStore ==
    (impl = "app" /\ last.op = "preview_reminders" /\ last.form # 0) =>
        ((last.status = "success") <=> (SqGetFormById(dbForms, last.form) # 0))


(* ------------------------------- C27 --------------------------------- *)
\* the people who have a row for the form at index f of the table forms
RowPeople(f) ==
    { dbResponses[i].person_id :
        i \in { k \in 1..Len(dbResponses) : dbResponses[k].form_id = dbForms[f].id } }

\* C27: in the SQLite store the people with a row for a form are the
\* form's expected_people_ids, and each of them is a person of the table people
C27_RowsMatchExpected ==
    impl = "sqlite" =>
        \A f \in 1..Len(dbForms) :
            /\ RowPeople(f) = Range(dbForms[f].expected_people_ids)
            /\ \A p \in RowPeople(f) : SqGetPersonById(dbPeople, p) # 0


(* ------------------------------- C28 --------------------------------- *)
\* C28: a sync that follows a sync of the same form with the same
\* submissions leaves the people, the expected sets, the number of rows and
\* their has_responded flags as they were, creates nobody and counts no more
\* errors than the first
C28_SyncIdempotent ==
    [][ ( /\ last.op = "sync" /\ last'.op = "sync"
          /\ last.form # 0 /\ last'.form = last.form /\ last'.subs = last.subs ) =>
          /\ dbPeople' = dbPeople
          /\ Len(dbForms') = Len(dbForms)
          /\ \A f \in 1..Len(dbForms) :
                Range(dbForms'[f].expected_people_ids) = Range(dbForms[f].expected_people_ids)
          /\ Len(dbResponses') = Len(dbResponses)
          /\ \A i \in 1..Len(dbResponses) :
                dbResponses'[i].has_responded = dbResponses[i].has_responded
          /\ last'.created = 0
          /\ last'.errors <= last.errors ]_vars


(* ------------------------------- C29 --------------------------------- *)
\* the people a preview of form f lists in the store as it is
PreviewPeople(f, cooldown) ==
    { ssPeople[e[1]].id : e \in PreviewEligible(SsStore, f, cooldown, now) }

\* C29: a send for a form without the sync step attempts a message to the
\* people the preview of the form lists in the store the send started from,
\* one message each: sent + failed is the preview's eligible count
C29_PreviewAndSendAgree ==
    [][ ( /\ impl = "reminders"
          /\ last'.op = "send_reminders_for_form"
          /\ ~last'.syncFirst ) =>
          /\ { pair[2] : pair \in Addressed(last') }
                = PreviewPeople(last'.form, last'.cooldown)
          /\ \A pair \in Addressed(last') : pair[1] = last'.form
          /\ Len(last'.msgs)
                = Cardinality(PreviewEligible(SsStore, last'.form, last'.cooldown, now)) ]_vars

\* a send without the sync step that wrote to one person while another
\* person of the form, who has no handle, is still pending
C29_Witness ==
    /\ impl = "reminders"
    /\ last.op = "send_reminders_for_form" /\ ~last.syncFirst
    /\ Len(last.msgs) = 1
    /\ \E i \in 1..Len(ssResponses), k \in 1..Len(ssPeople) :
          /\ ssResponses[i].form_id = last.form
          /\ ssResponses[i].person_id = ssPeople[k].id
          /\ ~ssResponses[i].has_responded
          /\ ssPeople[k].psid = ""

====
